---- MODULE Spec2Model ----
(***************************************************************************)
(* Mandau: the Agent's Operation Manager and Stack Manager (package        *)
(* operation, package stack), the Agent's stream handlers that relay       *)
(* operation events, and the per-RPC interceptor chains of the Agent and   *)
(* of the Control Node, the Control Node's agent registry and proxies,     *)
(* the Agent's heartbeat loop, and the plugin registry.                     *)
(*                                                                         *)
(* The specifications share the variables:                                 *)
(*   Spec        the stack manager, its worker goroutines and the          *)
(*               operation manager, for several operations at once;        *)
(*   SpecStream  one ApplyStack / RemoveStack stream of the Agent: its     *)
(*               operation, its worker and the handler subscribed to it    *)
(*               (listeners are keyed by operation id, so the events of    *)
(*               other operations never reach this subscriber);            *)
(*   SpecRpc     inbound RPCs travelling through the interceptor chains;   *)
(*   SpecCore    the registry under RegisterAgent, Heartbeat, the health   *)
(*               sweep and time;                                           *)
(*   SpecProxy   the unary stack proxies ListStacks and GetStack;          *)
(*   SpecRelay   the server-streaming proxies;                             *)
(*   SpecLink    one Agent's heartbeat loop against a Control Node that    *)
(*               may stop and start again (with fairness of the loop);     *)
(*   SpecCancel  one operation of the Agent under Cancel calls, and        *)
(*               FairCancel, the same with fairness of the worker and of   *)
(*               the handler;                                              *)
(*   SpecApply   the stack manager and its workers with every outcome of   *)
(*               the filesystem calls of ApplyStack;                       *)
(*   SpecProgress one operation of the Agent under SetProgress calls;      *)
(*   SpecEvents  one operation, the calls that publish its events and two  *)
(*               subscribers;                                              *)
(*   SpecOrder   the same for the calls that report progress, with what    *)
(*               each subscriber has received;                             *)
(*   SpecRegistry a plugin registry from Register to ShutdownAll;          *)
(*   SpecSweep   the registry mutex: Heartbeat calls interleaved with the  *)
(*               steps of the health sweep;                                *)
(*   SpecForward ListStacks calls of the Control Node, statement by        *)
(*               statement, against registrations and the health sweep;    *)
(*   SpecDiff, SpecLoad, SpecFiles, SpecPolicy                             *)
(*               one call of DiffStack, of loadStack, of a filesystem      *)
(*               access and of the policy step, for each of its inputs.    *)
(***************************************************************************)
EXTENDS Integers, Sequences, FiniteSets, TLC

\* ---------------------------------------------------------------- bounds
\* Operations created during one run (uuid.New() never repeats an id).
MaxOps == 2
\* Calls of Cancel / SetProgress made from outside the workers.
MaxApiCalls == 2
\* Capacity of the channel Subscribe hands out.
SubscribeBuffer == 2

OpIds == 1..MaxOps
Stacks == {"web", "db"}
ProgressInputs == {50, 100}
\* SetProgress takes an int: values below, inside and above 0..100.
AnyProgress == {-1, 50, 100, 101}

VARIABLES
    operations,   \* Manager.operations: op id -> Operation
    listeners,    \* Manager.listeners: op id -> sequence of channels
    chan,         \* the buffered contents of each subscriber channel
    lastDelivered, \* history: how many events each channel accepted, and the last
    wpc,          \* position of the worker goroutine of each operation
    hpc,          \* position of the stream handler that created each operation
    pullImages,   \* req.PullImages of the request each worker was started with
    dirs,         \* the directories and files present under stackRoot
    apiCalls,     \* number of Cancel / SetProgress calls made so far
    calls,        \* the inbound RPCs: where each is in its interceptor chain
    auditLog,     \* the entries AuditAll has handed to the audit plugins, per call
    now,          \* the clock: the Control Node's, in seconds; the Agent's in SpecEvents
    nextSweep,    \* when the ticker of monitorAgents fires next
    agents,       \* AgentRegistry.agents: agent id -> AgentConnection
    reply,        \* what the Control Node returned to its last caller
    offlineLog,   \* lines AuditLogger.LogAgentOffline has printed, per agent id
    coreAudit,    \* entries the Control Node's registry code handed to AuditAll
    coreUp,       \* the Control Node process is running
    link,         \* an agent's side of its connection to the Control Node
    relay,        \* a server-streaming call the Control Node is proxying
    sent,         \* the events each Agent stream handler has sent to its caller
    diffed,       \* the last DiffStack of the stack manager: its inputs and result
    loaded,       \* the last loadStack of the stack manager: its inputs and result
    touched,      \* the filesystem accesses of the last call made for a caller
    authz,        \* the last policy evaluation of the RBAC plugin for a request
    sweep,        \* AgentRegistry.mu and the goroutines that take it, step by step
    fwd,          \* ListStacks calls of the Control Node in flight, and its channels
    registry      \* plugin.Registry: its plugins and the calls it has made on them

opVars == <<operations, listeners, chan, lastDelivered, wpc, hpc, pullImages,
            dirs, apiCalls>>
rpcVars == <<calls, auditLog>>
coreVars == <<now, nextSweep, agents, reply, offlineLog, coreAudit>>
linkVars == <<coreUp, link, relay, sent>>
fnVars == <<diffed, loaded, touched, authz, sweep, fwd, registry>>
vars == <<opVars, rpcVars, coreVars, linkVars, fnVars>>

\* ------------------------------------------------- operation.Manager
OperationStatePending == "pending"
OperationStateRunning == "running"
OperationStateCompleted == "completed"
OperationStateFailed == "failed"
OperationStateCancelled == "cancelled"

Terminal == {OperationStateCompleted, OperationStateFailed, OperationStateCancelled}

Exists(o) == o \in DOMAIN operations

NoEvent == [OperationID |-> 0]
NoDelivery == [n |-> 0, last |-> NoEvent]

\* An Event whose Timestamp field is not set holds time.Time{}, which is
\* before every time the clock shows.
ZeroTime == -1

\* Event{...} with Timestamp: time.Now()
Event(o, state, msg, progress, err) ==
    [OperationID |-> o, State |-> state, Message |-> msg,
     Progress |-> progress, Error |-> err, Timestamp |-> now]

\* emitEventLocked: a non-blocking send to every listener of the operation;
\* a full channel skips the event.
Accepts(ch) == Len(chan[ch]) < SubscribeBuffer

\* A publication that would give up at the first full channel.
emitEventUntilFull(ev) ==
    LET ls == listeners[ev.OperationID]
        open(i) == \A j \in 1..i : Accepts(ls[j])
        targets == {ls[i] : i \in {k \in 1..Len(ls) : open(k)}}
    IN /\ chan' = [ch \in OpIds |->
                     IF ch \in targets THEN Append(chan[ch], ev) ELSE chan[ch]]
       /\ lastDelivered' = [ch \in OpIds |->
                     IF ch \in targets
                     THEN [n |-> lastDelivered[ch].n + 1, last |-> ev]
                     ELSE lastDelivered[ch]]

\* A publication that would put the event in front of the buffered ones.
emitEventInFront(ev) ==
    LET ls == listeners[ev.OperationID]
        targets == {ls[i] : i \in 1..Len(ls)}
    IN /\ chan' = [ch \in OpIds |->
                     IF ch \in targets /\ Accepts(ch)
                     THEN <<ev>> \o chan[ch] ELSE chan[ch]]
       /\ lastDelivered' = [ch \in OpIds |->
                     IF ch \in targets /\ Accepts(ch)
                     THEN [n |-> lastDelivered[ch].n + 1, last |-> ev]
                     ELSE lastDelivered[ch]]

emitEventLocked(ev) ==
    LET ls == listeners[ev.OperationID]
        targets == {ls[i] : i \in 1..Len(ls)}
    IN /\ chan' = [ch \in OpIds |->
                     IF ch \in targets /\ Accepts(ch)
                     THEN Append(chan[ch], ev) ELSE chan[ch]]
       /\ lastDelivered' = [ch \in OpIds |->
                     IF ch \in targets /\ Accepts(ch)
                     THEN [n |-> lastDelivered[ch].n + 1, last |-> ev]
                     ELSE lastDelivered[ch]]

\* CreateOperation: a fresh id, state pending, a cancel function whose
\* context is discarded.
NewOperation(type, stack) ==
    [Type |-> type, State |-> OperationStatePending, Progress |-> 0,
     Error |-> FALSE, Completed |-> FALSE, Stack |-> stack, Cancelled |-> FALSE]

NextOpId == Cardinality(DOMAIN operations) + 1

SetState(o, state) ==
    IF ~Exists(o) THEN UNCHANGED <<operations, chan, lastDelivered>>
    ELSE /\ operations' = [operations EXCEPT ![o].State = state]
         /\ emitEventLocked(Event(o, state, "", 0, FALSE))

SetProgress(o, progress) ==
    IF ~Exists(o) THEN UNCHANGED <<operations, chan, lastDelivered>>
    ELSE /\ operations' = [operations EXCEPT ![o].Progress = progress]
         /\ emitEventLocked(Event(o, operations[o].State, "", progress, FALSE))

EmitEvent(o, message) ==
    IF ~Exists(o) THEN UNCHANGED <<operations, chan, lastDelivered>>
    ELSE /\ UNCHANGED operations
         /\ emitEventLocked(Event(o, operations[o].State, message, 0, FALSE))

SetError(o) ==
    IF ~Exists(o) THEN UNCHANGED <<operations, chan, lastDelivered>>
    ELSE /\ operations' = [operations EXCEPT ![o].State = OperationStateFailed,
                                             ![o].Error = TRUE,
                                             ![o].Completed = TRUE]
         /\ emitEventLocked(Event(o, OperationStateFailed, "", 0, TRUE))

SetCompleted(o) ==
    IF ~Exists(o) THEN UNCHANGED <<operations, chan, lastDelivered>>
    ELSE /\ operations' = [operations EXCEPT ![o].State = OperationStateCompleted,
                                             ![o].Progress = 100,
                                             ![o].Completed = TRUE]
         /\ emitEventLocked(Event(o, OperationStateCompleted, "", 100, FALSE))

\* Cancel as it would be if it refused every operation that is not running.
CancelRefusedUnlessRunning(o) ==
    \/ ~Exists(o)
    \/ operations[o].State # OperationStateRunning

\* Cancel refuses only an unknown, a completed or a failed operation.
CancelRefused(o) ==
    \/ ~Exists(o)
    \/ operations[o].State \in {OperationStateCompleted, OperationStateFailed}

\* What Cancel returns: the text of its error, or "nil".
CancelReturn(o) ==
    IF ~Exists(o) THEN "operation not found"
    ELSE IF CancelRefused(o) THEN "operation already finished"
    ELSE "nil"

Cancel(o) ==
    IF CancelRefused(o) THEN UNCHANGED <<operations, chan, lastDelivered>>
    ELSE /\ operations' = [operations EXCEPT ![o].State = OperationStateCancelled,
                                             ![o].Completed = TRUE,
                                             ![o].Cancelled = TRUE]
         /\ emitEventLocked([Event(o, OperationStateCancelled, "", 0, FALSE)
                                 EXCEPT !.Timestamp = ZeroTime])

\* ------------------------------------------------------ stack.Manager
\* ApplyStack, under m.mu: create the directory, write compose.yaml (and
\* .env), create the operation, start executeApply in a goroutine.
CreateOperation(o, type, stack) ==
    operations' = [x \in DOMAIN operations \cup {o} |->
                     IF x = o THEN NewOperation(type, stack) ELSE operations[x]]

\* Paths under stackRoot: the directory of a stack and the files in it.
StackDir(s) == <<s>>
ComposeFile(s) == <<s, "compose.yaml">>
EnvFile(s) == <<s, ".env">>

\* The call of the filesystem that fails: none ("ok"), MkdirAll ("mkdir"),
\* WriteFile of compose.yaml ("compose") or WriteFile of .env ("env").
FsOutcomes == {"ok", "mkdir", "compose", "env"}

\* ApplyStack that creates the operation and starts the worker as soon as the
\* directory is made, whatever becomes of the files.
MgrApplyStackEarly(s, pull, env, fs) ==
    IF fs = "mkdir" THEN UNCHANGED <<operations, wpc, pullImages, dirs>>
    ELSE /\ dirs' = dirs \cup {StackDir(s)}
                     \cup (IF fs = "compose" THEN {} ELSE {ComposeFile(s)})
                     \cup (IF env /\ fs = "ok" THEN {EnvFile(s)} ELSE {})
         /\ CreateOperation(NextOpId, "stack.apply", s)
         /\ wpc' = [wpc EXCEPT ![NextOpId] = "start"]
         /\ pullImages' = [pullImages EXCEPT ![NextOpId] = pull]

\* env: the request has env vars; fs: what the filesystem does. The .env
\* file is written, and its write can fail, only for a request with env vars.
MgrApplyStack(s, pull, env, fs) ==
    IF fs = "mkdir" THEN UNCHANGED <<operations, wpc, pullImages, dirs>>
    ELSE IF fs = "compose"
    THEN /\ dirs' = dirs \cup {StackDir(s)}
         /\ UNCHANGED <<operations, wpc, pullImages>>
    ELSE IF env /\ fs = "env"
    THEN /\ dirs' = dirs \cup {StackDir(s), ComposeFile(s)}
         /\ UNCHANGED <<operations, wpc, pullImages>>
    ELSE /\ dirs' = dirs \cup {StackDir(s), ComposeFile(s)}
                     \cup (IF env THEN {EnvFile(s)} ELSE {})
         /\ CreateOperation(NextOpId, "stack.apply", s)
         /\ wpc' = [wpc EXCEPT ![NextOpId] = "start"]
         /\ pullImages' = [pullImages EXCEPT ![NextOpId] = pull]

\* The stack manager's ApplyStack returns an error: a call of the filesystem
\* it makes has failed.
ApplyFails(env, fs) == fs \in {"mkdir", "compose"} \/ (env /\ fs = "env")

\* RemoveStack, under m.mu: create the operation, start executeRemove.
MgrRemoveStack(s) ==
    /\ CreateOperation(NextOpId, "stack.remove", s)
    /\ wpc' = [wpc EXCEPT ![NextOpId] = "start"]
    /\ UNCHANGED <<pullImages, dirs>>

\* ---- the worker goroutines executeApply / executeRemove, one step per call
\* ---- of the operation manager; ok is the outcome of the work done before it
IsApply(o) == Exists(o) /\ operations[o].Type = "stack.apply"
IsRemove(o) == Exists(o) /\ operations[o].Type = "stack.remove"

\* m.opMgr.SetState(opID, OperationStateRunning)
WorkerStart(o) ==
    /\ Exists(o) /\ wpc[o] = "start"
    /\ SetState(o, OperationStateRunning)
    /\ wpc' = [wpc EXCEPT ![o] = "announce"]
    /\ UNCHANGED <<listeners, hpc, pullImages, dirs, apiCalls>>
    /\ UNCHANGED <<rpcVars, coreVars, linkVars, fnVars>>

\* EmitEvent("Parsing compose file...") / EmitEvent("Stopping containers...")
WorkerAnnounce(o) ==
    /\ Exists(o) /\ wpc[o] = "announce"
    /\ IF IsApply(o)
       THEN EmitEvent(o, "Parsing compose file...") /\ wpc' = [wpc EXCEPT ![o] = "parse"]
       ELSE EmitEvent(o, "Stopping containers...") /\ wpc' = [wpc EXCEPT ![o] = "down"]
    /\ UNCHANGED <<listeners, hpc, pullImages, dirs, apiCalls>>
    /\ UNCHANGED <<rpcVars, coreVars, linkVars, fnVars>>

\* parseCompose, then SetError, or the next announcement
ApplyParse(o, ok) ==
    /\ IsApply(o) /\ wpc[o] = "parse"
    /\ IF ~ok THEN SetError(o) /\ wpc' = [wpc EXCEPT ![o] = "done"]
       ELSE IF pullImages[o]
       THEN EmitEvent(o, "Pulling images...") /\ wpc' = [wpc EXCEPT ![o] = "pull"]
       ELSE EmitEvent(o, "Creating/updating services...")
            /\ wpc' = [wpc EXCEPT ![o] = "up"]
    /\ UNCHANGED <<listeners, hpc, pullImages, dirs, apiCalls>>
    /\ UNCHANGED <<rpcVars, coreVars, linkVars, fnVars>>

\* pullImages, then SetError or EmitEvent("Creating/updating services...")
ApplyPull(o, ok) ==
    /\ IsApply(o) /\ wpc[o] = "pull"
    /\ IF ~ok THEN SetError(o) /\ wpc' = [wpc EXCEPT ![o] = "done"]
       ELSE EmitEvent(o, "Creating/updating services...")
            /\ wpc' = [wpc EXCEPT ![o] = "up"]
    /\ UNCHANGED <<listeners, hpc, pullImages, dirs, apiCalls>>
    /\ UNCHANGED <<rpcVars, coreVars, linkVars, fnVars>>

\* execCommand(docker compose up -d), then SetError or
\* EmitEvent("Stack applied successfully")
ApplyUp(o, ok) ==
    /\ IsApply(o) /\ wpc[o] = "up"
    /\ IF ~ok THEN SetError(o) /\ wpc' = [wpc EXCEPT ![o] = "done"]
       ELSE EmitEvent(o, "Stack applied successfully")
            /\ wpc' = [wpc EXCEPT ![o] = "complete"]
    /\ UNCHANGED <<listeners, hpc, pullImages, dirs, apiCalls>>
    /\ UNCHANGED <<rpcVars, coreVars, linkVars, fnVars>>

\* execCommand(docker compose down), then SetError or
\* EmitEvent("Removing stack directory...")
RemoveDown(o, ok) ==
    /\ IsRemove(o) /\ wpc[o] = "down"
    /\ IF ~ok THEN SetError(o) /\ wpc' = [wpc EXCEPT ![o] = "done"]
       ELSE EmitEvent(o, "Removing stack directory...")
            /\ wpc' = [wpc EXCEPT ![o] = "rmdir"]
    /\ UNCHANGED <<listeners, hpc, pullImages, dirs, apiCalls>>
    /\ UNCHANGED <<rpcVars, coreVars, linkVars, fnVars>>

\* os.RemoveAll(stackPath), then SetError or EmitEvent("Stack removed successfully")
RemoveDir(o, ok) ==
    /\ IsRemove(o) /\ wpc[o] = "rmdir"
    /\ IF ~ok THEN SetError(o) /\ wpc' = [wpc EXCEPT ![o] = "done"] /\ UNCHANGED dirs
       ELSE /\ EmitEvent(o, "Stack removed successfully")
            /\ wpc' = [wpc EXCEPT ![o] = "complete"]
            /\ dirs' = {path \in dirs : Head(path) # operations[o].Stack}
    /\ UNCHANGED <<listeners, hpc, pullImages, apiCalls>>
    /\ UNCHANGED <<rpcVars, coreVars, linkVars, fnVars>>

\* m.opMgr.SetCompleted(opID)
WorkerComplete(o) ==
    /\ Exists(o) /\ wpc[o] = "complete"
    /\ SetCompleted(o)
    /\ wpc' = [wpc EXCEPT ![o] = "done"]
    /\ UNCHANGED <<listeners, hpc, pullImages, dirs, apiCalls>>
    /\ UNCHANGED <<rpcVars, coreVars, linkVars, fnVars>>

\* ------------------------------------- subscriptions (operation.Manager)
\* Subscribe(opID): a new buffered channel appended to listeners[opID].  The
\* stream handler of the call that created operation o owns channel o.
Subscribe(o, ch) ==
    listeners' = [listeners EXCEPT ![o] = Append(@, ch)]

\* Unsubscribe(opID, ch): the channel leaves listeners[opID]; a second call
\* finds nothing to remove.
Unsubscribe(o, ch) ==
    listeners' = [listeners EXCEPT ![o] = SelectSeq(@, LAMBDA x : x # ch)]

\* ------------------------------- Agent.ApplyStack / Agent.RemoveStack
\* The handler up to the subscription: the stack manager's call, and on an
\* error the return of codes.Internal with no subscription.
ApplyStack(s, pull, env, fs) ==
    /\ NextOpId = 1
    /\ MgrApplyStack(s, pull, env, fs)
    /\ hpc' = IF ApplyFails(env, fs) THEN hpc
              ELSE [hpc EXCEPT ![NextOpId] = "subscribe"]
    /\ UNCHANGED <<listeners, chan, lastDelivered, apiCalls>>
    /\ UNCHANGED <<rpcVars, coreVars, linkVars, fnVars>>

RemoveStack(s) ==
    /\ NextOpId = 1
    /\ MgrRemoveStack(s)
    /\ hpc' = [hpc EXCEPT ![NextOpId] = "subscribe"]
    /\ UNCHANGED <<listeners, chan, lastDelivered, apiCalls>>
    /\ UNCHANGED <<rpcVars, coreVars, linkVars, fnVars>>

\* events := a.opMgr.Subscribe(opID)
HandlerSubscribe(o) ==
    /\ hpc[o] = "subscribe"
    /\ Subscribe(o, o)
    /\ hpc' = [hpc EXCEPT ![o] = "loop"]
    /\ UNCHANGED <<operations, chan, lastDelivered, wpc, pullImages, dirs, apiCalls>>
    /\ UNCHANGED <<rpcVars, coreVars, linkVars, fnVars>>

\* case event := <-events: stream.Send; return after a completed or a failed
\* event (the deferred Unsubscribe runs on return).
HandlerReturns(ev) == ev.State \in {OperationStateCompleted, OperationStateFailed}

HandlerRecv(o) ==
    /\ hpc[o] = "loop"
    /\ chan[o] # <<>>
    /\ chan' = [chan EXCEPT ![o] = Tail(@)]
    /\ sent' = [sent EXCEPT ![o] = Append(@, Head(chan[o]))]
    /\ IF HandlerReturns(Head(chan[o]))
       THEN Unsubscribe(o, o) /\ hpc' = [hpc EXCEPT ![o] = "done"]
       ELSE UNCHANGED <<listeners, hpc>>
    /\ UNCHANGED <<operations, lastDelivered, wpc, pullImages, dirs, apiCalls>>
    /\ UNCHANGED <<rpcVars, coreVars, coreUp, link, relay, fnVars>>

\* case <-ctx.Done(): return ctx.Err() (the client went away)
HandlerCtxDone(o) ==
    /\ hpc[o] = "loop"
    /\ Unsubscribe(o, o)
    /\ hpc' = [hpc EXCEPT ![o] = "done"]
    /\ UNCHANGED <<operations, chan, lastDelivered, wpc, pullImages, dirs, apiCalls>>
    /\ UNCHANGED <<rpcVars, coreVars, linkVars, fnVars>>

\* ------------------------- calls of the manager from outside the workers
ApiCancel(o) ==
    /\ apiCalls < MaxApiCalls
    /\ apiCalls' = apiCalls + 1
    /\ Cancel(o)
    /\ UNCHANGED <<listeners, wpc, hpc, pullImages, dirs>>
    /\ UNCHANGED <<rpcVars, coreVars, linkVars, fnVars>>

ApiSetProgress(o, p) ==
    /\ apiCalls < MaxApiCalls
    /\ apiCalls' = apiCalls + 1
    /\ SetProgress(o, p)
    /\ UNCHANGED <<listeners, wpc, hpc, pullImages, dirs>>
    /\ UNCHANGED <<rpcVars, coreVars, linkVars, fnVars>>

\* ---- any caller of the manager: publishers and subscribers of one operation
\* Publications of one run: by any of the publishers, and by the three that
\* do not end the operation.
MaxEvents == 3
MaxOrdered == 4
\* The channels Subscribe has handed out for the operation.
Subscribers == {1, 2}
Publishers ==
    {"SetState", "SetProgress", "EmitEvent", "SetError", "SetCompleted", "Cancel"}
Reporters == {"SetState", "SetProgress", "EmitEvent"}

CreateCall ==
    /\ NextOpId = 1
    /\ CreateOperation(1, "stack.apply", "web")
    /\ UNCHANGED <<listeners, chan, lastDelivered, wpc, hpc, pullImages, dirs, apiCalls>>
    /\ UNCHANGED <<rpcVars, coreVars, linkVars, fnVars>>

\* One call that publishes, made under m.mu; the clock has moved on by the
\* next call, so that a timestamp names the publication it was taken for.
PublishCall(o, f) ==
    /\ Exists(o)
    /\ f = "Cancel" => ~CancelRefused(o)
    /\ CASE f = "SetState" -> SetState(o, OperationStateRunning)
         [] f = "SetProgress" -> SetProgress(o, 50)
         [] f = "EmitEvent" -> EmitEvent(o, "message")
         [] f = "SetError" -> SetError(o)
         [] f = "SetCompleted" -> SetCompleted(o)
         [] f = "Cancel" -> Cancel(o)
    /\ now' = now + 1
    /\ UNCHANGED <<listeners, wpc, hpc, pullImages, dirs, apiCalls>>
    /\ UNCHANGED <<nextSweep, agents, reply, offlineLog, coreAudit>>
    /\ UNCHANGED <<rpcVars, linkVars, fnVars>>

\* events := Subscribe(opID)
SubscribeCall(o, ch) ==
    /\ Exists(o) /\ hpc[ch] = "none"
    /\ Subscribe(o, ch)
    /\ hpc' = [hpc EXCEPT ![ch] = "loop"]
    /\ UNCHANGED <<operations, chan, lastDelivered, wpc, pullImages, dirs, apiCalls>>
    /\ UNCHANGED <<rpcVars, coreVars, linkVars, fnVars>>

\* event := <-events
ReceiveCall(ch) ==
    /\ hpc[ch] = "loop"
    /\ chan[ch] # <<>>
    /\ chan' = [chan EXCEPT ![ch] = Tail(@)]
    /\ sent' = [sent EXCEPT ![ch] = Append(@, Head(chan[ch]))]
    /\ UNCHANGED <<operations, listeners, lastDelivered, wpc, hpc, pullImages,
                   dirs, apiCalls>>
    /\ UNCHANGED <<rpcVars, coreVars, coreUp, link, relay, fnVars>>

\* event := <-events, by a subscriber of which no record is kept
TakeCall(ch) ==
    /\ hpc[ch] = "loop"
    /\ chan[ch] # <<>>
    /\ chan' = [chan EXCEPT ![ch] = Tail(@)]
    /\ UNCHANGED <<operations, listeners, lastDelivered, wpc, hpc, pullImages,
                   dirs, apiCalls>>
    /\ UNCHANGED <<rpcVars, coreVars, linkVars, fnVars>>

\* Unsubscribe(opID, events)
UnsubscribeCall(o, ch) ==
    /\ hpc[ch] = "loop"
    /\ Unsubscribe(o, ch)
    /\ hpc' = [hpc EXCEPT ![ch] = "done"]
    /\ UNCHANGED <<operations, chan, lastDelivered, wpc, pullImages, dirs, apiCalls>>
    /\ UNCHANGED <<rpcVars, coreVars, linkVars, fnVars>>

\* ---- the stack manager called directly (Spec): no handler is followed
StackApply(s, pull, env, fs) ==
    /\ NextOpId <= MaxOps
    /\ MgrApplyStack(s, pull, env, fs)
    /\ UNCHANGED <<listeners, chan, lastDelivered, hpc, apiCalls>>
    /\ UNCHANGED <<rpcVars, coreVars, linkVars, fnVars>>

StackRemove(s) ==
    /\ NextOpId <= MaxOps
    /\ MgrRemoveStack(s)
    /\ UNCHANGED <<listeners, chan, lastDelivered, hpc, apiCalls>>
    /\ UNCHANGED <<rpcVars, coreVars, linkVars, fnVars>>

\* ------------------------------------------- the interceptor chains
\* The specification follows a call (1) and the same request made again (2)
\* of a server whose registry may hold other audit plugins, so that the two
\* can be compared.
Calls == {1, 2}
\* Audit plugins a registry holds at most.
MaxAuditPlugins == 2

Servers == {"agent", "core"}
Methods == {"GetStack", "ApplyStack"}
\* What the registered policy plugin answers for the caller: "none" is no
\* policy plugin; "errDecision" an error beside a decision; "errNil" an error
\* with a nil decision.
PolicyDispositions == {"none", "allow", "deny", "errDecision", "errNil"}

\* ApplyStack, RemoveStack and GetStackLogs take a stream; the rest are unary.
Kind(method) == IF method = "ApplyStack" THEN "stream" ELSE "unary"

\* grpc.ChainUnaryInterceptor / grpc.ChainStreamInterceptor: the first
\* interceptor is the outermost.
AgentUnaryChain == <<"auth", "audit", "policy", "recovery">>
AgentStreamChain == <<"auth", "audit", "recovery">>
CoreUnaryChain == <<"auth", "audit">>
CoreStreamChain == <<>>

Chain(server, kind) ==
    IF server = "agent"
    THEN (IF kind = "unary" THEN AgentUnaryChain ELSE AgentStreamChain)
    ELSE (IF kind = "unary" THEN CoreUnaryChain ELSE CoreStreamChain)

ChainOf(r) == Chain(r.server, Kind(r.method))

IdleCall ==
    [pc |-> "idle", server |-> "agent", method |-> "GetStack", policy |-> "none",
     nAudit |-> 0, depth |-> 0, identity |-> "none", auditIdentity |-> "none",
     cert |-> "none", auth |-> "none", outcome |-> "none",
     err |-> "OK", resp |-> FALSE, panicking |-> FALSE, handlerRan |-> FALSE,
     entered |-> FALSE, trace |-> <<>>]

\* resultString(err)
resultString(err) == IF err # "OK" THEN "error" ELSE "success"

\* Going inward from interceptor r.depth: the audit and the recovery
\* interceptors only take a note (start time and identity of the context;
\* the deferred recover) and call the next handler.
RECURSIVE Descend(_)
Descend(r) ==
    LET d == r.depth + 1
        ch == ChainOf(r)
    IN IF d > Len(ch) THEN [r EXCEPT !.depth = d]
       ELSE IF ch[d] = "audit"
       THEN Descend([r EXCEPT !.depth = d, !.auditIdentity = r.identity,
                               !.trace = Append(@, "audit.enter")])
       ELSE IF ch[d] = "recovery"
       THEN Descend([r EXCEPT !.depth = d, !.trace = Append(@, "recovery.enter")])
       ELSE [r EXCEPT !.depth = d]

\* Going outward from interceptor r.depth: a return value passes the auth, the
\* policy and the recovery interceptors untouched and stops at the code the
\* audit interceptor runs after its handler; a panic skips that code and stops
\* only at a deferred recover.  With no such interceptor left the call leaves
\* the chain: returned to gRPC, or the panic ends the process.
RECURSIVE Ascend(_)
Ascend(r) ==
    LET d == r.depth - 1
        ch == ChainOf(r)
    IN IF d < 1
       THEN [r EXCEPT !.depth = 0, !.pc = IF r.panicking THEN "crashed" ELSE "done",
                      !.err = IF r.panicking THEN "Crashed" ELSE r.err]
       ELSE IF (r.panicking /\ ch[d] = "recovery") \/ (~r.panicking /\ ch[d] = "audit")
       THEN [r EXCEPT !.depth = d, !.pc = "up"]
       ELSE Ascend([r EXCEPT !.depth = d])

Stage(r) ==
    IF r.depth > Len(ChainOf(r)) THEN "handler" ELSE ChainOf(r)[r.depth]

\* A call arrives; gRPC hands it to the outermost interceptor, or straight to
\* the handler when the server has no chain for its kind.
Arrive(server, method, policy, nAudit) ==
    Descend([IdleCall EXCEPT !.pc = "down", !.server = server, !.method = method,
                             !.policy = policy, !.nAudit = nAudit])

Finished(c) == calls[c].pc \in {"done", "crashed"}

Invoke(server, method, policy, nAudit) ==
    /\ calls[1].pc = "idle"
    /\ calls' = [calls EXCEPT ![1] = Arrive(server, method, policy, nAudit)]
    /\ UNCHANGED <<auditLog, opVars, coreVars, linkVars, fnVars>>

\* The request of call 1 once more, after call 1 has ended.
Replay(nAudit) ==
    /\ Finished(1) /\ calls[2].pc = "idle"
    /\ calls' = [calls EXCEPT ![2] =
          Arrive(calls[1].server, calls[1].method, calls[1].policy, nAudit)]
    /\ UNCHANGED <<auditLog, opVars, coreVars, linkVars, fnVars>>

\* The status an authentication failure returns: the Agent builds a status
\* error; the Control Node returns a plain error, which gRPC reports as Unknown.
AuthFailure(server) == IF server = "agent" THEN "Unauthenticated" ELSE "Unknown"

\* authInterceptor / authStreamInterceptor.  cert: the peer has a verified
\* chain; auth: "none" no auth plugin, "ok", or "reject".
AuthStep(r, cert, auth) ==
    LET r1 == [r EXCEPT !.cert = IF cert THEN "verified" ELSE "unverified",
                        !.auth = IF cert THEN auth ELSE "none",
                        !.trace = Append(@, "auth")]
    IN IF ~cert \/ auth = "reject"
       THEN Ascend([r1 EXCEPT !.err = AuthFailure(r.server), !.pc = "up"])
       ELSE Descend([r1 EXCEPT !.identity = "user"])

AuthInterceptor(c, cert, auth) ==
    /\ calls[c].pc = "down" /\ Stage(calls[c]) = "auth"
    /\ calls' = [calls EXCEPT ![c] = AuthStep(calls[c], cert, auth)]
    /\ UNCHANGED <<auditLog, opVars, coreVars, linkVars, fnVars>>

\* policyInterceptor: err != nil || !decision.Allowed reads decision.Reason,
\* which panics on a nil decision.
PolicyStep(r) ==
    LET r1 == [r EXCEPT !.trace = Append(@, "policy")]
    IN CASE r.policy \in {"none", "allow"} -> Descend(r1)
         [] r.policy \in {"deny", "errDecision"} ->
              Ascend([r1 EXCEPT !.err = "PermissionDenied", !.pc = "up"])
         [] OTHER -> Ascend([r1 EXCEPT !.panicking = TRUE, !.pc = "up"])

PolicyInterceptor(c) ==
    /\ calls[c].pc = "down" /\ Stage(calls[c]) = "policy"
    /\ calls' = [calls EXCEPT ![c] = PolicyStep(calls[c])]
    /\ UNCHANGED <<auditLog, opVars, coreVars, linkVars, fnVars>>

\* The handler returns, fails or panics.
HandlerErr(method) == IF method = "ApplyStack" THEN "Internal" ELSE "NotFound"

HandlerStep(r, outcome) ==
    LET r1 == [r EXCEPT !.handlerRan = TRUE, !.outcome = outcome,
                        !.trace = Append(@, "handler"), !.pc = "up"]
    IN CASE outcome = "ok" -> Ascend([r1 EXCEPT !.resp = TRUE])
         [] outcome = "err" -> Ascend([r1 EXCEPT !.err = HandlerErr(r.method)])
         [] OTHER -> Ascend([r1 EXCEPT !.panicking = TRUE])

\* Any handler but the Agent's ApplyStack: nothing of the model's state changes.
Handler(c, outcome) ==
    /\ calls[c].pc = "down" /\ Stage(calls[c]) = "handler"
    /\ ~(calls[c].server = "agent" /\ calls[c].method = "ApplyStack")
    /\ calls' = [calls EXCEPT ![c] = HandlerStep(calls[c], outcome)]
    /\ UNCHANGED <<auditLog, opVars, coreVars, linkVars, fnVars>>

\* Agent.ApplyStack: the stack manager's ApplyStack, then the event loop; a
\* failed directory or file gives codes.Internal at once.
HandlerApplyStack(c, s, pull, env, fs, outcome) ==
    /\ calls[c].pc = "down" /\ Stage(calls[c]) = "handler"
    /\ calls[c].server = "agent" /\ calls[c].method = "ApplyStack"
    /\ NextOpId <= MaxOps
    /\ MgrApplyStack(s, pull, env, fs)
    /\ calls' = [calls EXCEPT ![c] =
          HandlerStep([calls[c] EXCEPT !.entered = TRUE],
                      IF ApplyFails(env, fs) THEN "err" ELSE outcome)]
    /\ UNCHANGED <<listeners, chan, lastDelivered, hpc, apiCalls, auditLog, coreVars, linkVars, fnVars>>

\* recoveryInterceptor / recoveryStreamInterceptor: the deferred recover turns
\* a panic into codes.Internal.
RecoveryStep(r) ==
    Ascend([r EXCEPT !.panicking = FALSE, !.err = "Internal", !.resp = FALSE,
                     !.trace = Append(@, "recovery")])

RecoveryInterceptor(c) ==
    /\ calls[c].pc = "up" /\ Stage(calls[c]) = "recovery"
    /\ calls' = [calls EXCEPT ![c] = RecoveryStep(calls[c])]
    /\ UNCHANGED <<auditLog, opVars, coreVars, linkVars, fnVars>>

\* Registry.AuditAll: Log of every registered audit plugin, in order; Log
\* returns nothing, a plugin that cannot write reports to stderr.
AuditAll(r, failing) ==
    [i \in 1..r.nAudit |->
        [plugin |-> i, Action |-> r.method, Result |-> resultString(r.err),
         Identity |-> r.auditIdentity, written |-> i \notin failing]]

\* An audit interceptor the code does not have: one that fails the call with
\* Internal when a plugin's Log could not write.
AuditReturnPropagating(r, failing) ==
    Ascend([r EXCEPT !.trace = Append(@, "audit"),
                     !.err = IF failing # {} THEN "Internal" ELSE @,
                     !.resp = IF failing # {} THEN FALSE ELSE @])

\* auditInterceptor / auditStreamInterceptor after the handler: AuditAll,
\* then return what the handler returned.
AuditReturn(r, failing) ==
    Ascend([r EXCEPT !.trace = Append(@, "audit")])

AuditInterceptor(c, failing) ==
    /\ calls[c].pc = "up" /\ Stage(calls[c]) = "audit"
    /\ failing \subseteq 1..calls[c].nAudit
    /\ auditLog' = [auditLog EXCEPT ![c] = @ \o AuditAll(calls[c], failing)]
    /\ calls' = [calls EXCEPT ![c] = AuditReturn(calls[c], failing)]
    /\ UNCHANGED <<opVars, coreVars, linkVars, fnVars>>

\* ------------------------------------- Control Node: the agent registry
\* The clock runs to MaxTime in steps of TimeStep seconds.
MaxTime == 120
TimeStep == 15
\* Agents registered at the same time.
MaxAgents == 2

\* time.NewTicker(30 * time.Second) in monitorAgents
SweepInterval == 30
\* elapsed > 90*time.Second in monitorAgents
OfflineThreshold == 90
\* HeartbeatInterval: durationpb.New(30 * time.Second)
HeartbeatInterval == 30
\* time.Since(agentConn.LastSeen) <= 30*time.Second in getAgentConnection
RecentlySeen == 30

AgentStatusOnline == "online"
AgentStatusOffline == "offline"

\* An agent id: the one the request supplies, or agent-<hostname>-<unix_ts>.
SuppliedId(name) == [name |-> name, host |-> "", ts |-> 0]
generateAgentID(hostname) == [name |-> "agent", host |-> hostname, ts |-> now]
NoId == SuppliedId("")

\* RegisterRequest; AgentId "" asks the Control Node for an id.
RegisterRequests ==
    [AgentId : {"a1"}, Hostname : {"node-a"},
     Labels : {"env=dev", "env=prod"}, Capabilities : {{"docker", "stack"}}]
    \cup [AgentId : {"a2", ""}, Hostname : {"node-b"},
          Labels : {"env=dev"}, Capabilities : {{"docker", "stack"}}]

\* Agent ids a caller may name.
AddressedIds == DOMAIN agents \cup {SuppliedId("a1"), SuppliedId("a2")}

\* Go errors: Nil, an error made by fmt.Errorf (it has no gRPC status unless
\* it wraps one with %w), and a status error received from a gRPC call.
\* text: the pieces err.Error() is made of.
Nil == [wraps |-> "nil", text |-> {}]
Errorf(text) == [wraps |-> "none", text |-> {text}]
StatusError(code) == [wraps |-> code, text |-> {"rpc error"}]
ErrorfW(text, err) == [wraps |-> err.wraps, text |-> {text} \cup err.text]
\* The code the gRPC server puts on the wire for what a handler returned
\* (status.FromError follows the %w chain; no status in it: Unknown).
StatusCode(err) ==
    CASE err = Nil -> "OK"
      [] err.wraps = "none" -> "Unknown"
      [] OTHER -> err.wraps

NoUpstream == [err |-> Nil, stacks |-> <<>>]
NoReply == [rpc |-> "none", code |-> "OK", agent |-> NoId, interval |-> 0,
            stacks |-> <<>>, forwarded |-> FALSE, upstream |-> NoUpstream]
Reply(rpc, err) == [NoReply EXCEPT !.rpc = rpc, !.code = StatusCode(err)]

Put(f, k, v) == [x \in DOMAIN f \cup {k} |-> IF x = k THEN v ELSE f[x]]

\* A registration that would leave LastSeen at the zero time.
NewAgentConnectionUnseen(agentID, req) ==
    [ID |-> agentID, Hostname |-> req.Hostname, Address |-> "",
     Labels |-> req.Labels, Capabilities |-> req.Capabilities,
     Client |-> FALSE, LastSeen |-> 0, Status |-> AgentStatusOnline,
     Stacks |-> <<>>]

\* The record RegisterAgent stores.
NewAgentConnection(agentID, req) ==
    [ID |-> agentID, Hostname |-> req.Hostname, Address |-> "",
     Labels |-> req.Labels, Capabilities |-> req.Capabilities,
     Client |-> FALSE, LastSeen |-> now, Status |-> AgentStatusOnline,
     Stacks |-> <<>>]

RequestedId(req) ==
    IF req.AgentId # "" THEN SuppliedId(req.AgentId)
    ELSE generateAgentID(req.Hostname)

\* Core.RegisterAgent
RegisterAgent(req) ==
    LET agentID == RequestedId(req)
    IN /\ agentID \in DOMAIN agents \/ Cardinality(DOMAIN agents) < MaxAgents
       /\ agents' = Put(agents, agentID, NewAgentConnection(agentID, req))
       /\ reply' = [Reply("RegisterAgent", Nil) EXCEPT
                       !.agent = agentID, !.interval = HeartbeatInterval]
       /\ UNCHANGED <<now, nextSweep, offlineLog, coreAudit>>
       /\ UNCHANGED <<opVars, rpcVars>>

\* Core.ListAgents: one entry per record of the map.
ListAgents ==
    {[Id |-> agents[id].ID, Hostname |-> agents[id].Hostname,
      Status |-> agents[id].Status, Labels |-> agents[id].Labels,
      Capabilities |-> agents[id].Capabilities,
      LastSeen |-> agents[id].LastSeen] : id \in DOMAIN agents}

\* Core.Heartbeat
Heartbeat(agentID) ==
    /\ IF agentID \notin DOMAIN agents
       THEN /\ reply' = [Reply("Heartbeat", Errorf("agent not found")) EXCEPT
                            !.agent = agentID]
            /\ UNCHANGED agents
       ELSE /\ agents' = [agents EXCEPT ![agentID].LastSeen = now,
                                        ![agentID].Status = AgentStatusOnline]
            /\ reply' = [Reply("Heartbeat", Nil) EXCEPT !.agent = agentID]
    /\ UNCHANGED <<now, nextSweep, offlineLog, coreAudit>>
    /\ UNCHANGED <<opVars, rpcVars>>

\* A sweep that would count an agent last seen exactly 90 s ago as gone.
GoesOfflineEarly(a) ==
    now - a.LastSeen >= OfflineThreshold /\ a.Status # AgentStatusOffline

\* One pass of the loop body of monitorAgents over one agent.
GoesOffline(a) ==
    now - a.LastSeen > OfflineThreshold /\ a.Status # AgentStatusOffline

SweepAgent(a) ==
    LET a1 == IF GoesOffline(a) THEN [a EXCEPT !.Status = AgentStatusOffline] ELSE a
    IN IF a1.Status = AgentStatusOffline /\ a1.Client
       THEN [a1 EXCEPT !.Client = FALSE]
       ELSE a1

LogCount(id) == IF id \in DOMAIN offlineLog THEN offlineLog[id] ELSE 0

\* AuditLogger.LogAgentOffline: log.Printf, nothing is handed to AuditAll.
LogAgentOffline(ids) ==
    /\ offlineLog' = [id \in DOMAIN offlineLog \cup ids |->
                         LogCount(id) + IF id \in ids THEN 1 ELSE 0]
    /\ UNCHANGED coreAudit

\* Core.monitorAgents, one tick of its ticker.
monitorAgents ==
    /\ now >= nextSweep
    /\ nextSweep' = nextSweep + SweepInterval
    /\ agents' = [id \in DOMAIN agents |-> SweepAgent(agents[id])]
    /\ LogAgentOffline({id \in DOMAIN agents : GoesOffline(agents[id])})
    /\ UNCHANGED <<now, reply>>
    /\ UNCHANGED <<opVars, rpcVars>>

\* Time passes; the ticker fires before time passes its next tick.
Tick ==
    /\ coreUp => now < nextSweep
    /\ now + TimeStep <= MaxTime
    /\ now' = now + TimeStep
    /\ UNCHANGED <<nextSweep, agents, reply, offlineLog, coreAudit>>
    /\ UNCHANGED <<opVars, rpcVars>>

\* ----------------------- Control Node: the registry mutex, step by step
\* AgentRegistry.mu, the position of monitorAgents in its loop over the
\* agents, and the Heartbeat call that holds the mutex.
NoSweep == [mu |-> "free", pc |-> "wait", todo |-> {}, cur |-> NoId,
            elapsed |-> 0, beat |-> NoId]

\* monitorAgents: the ticker fires and c.agents.mu.Lock() returns.
monitorLock ==
    /\ sweep.pc = "wait" /\ now >= nextSweep
    /\ sweep.mu = "free"
    /\ sweep' = [sweep EXCEPT !.mu = "monitorAgents", !.pc = "range",
                              !.todo = DOMAIN agents]
    /\ nextSweep' = nextSweep + SweepInterval
    /\ UNCHANGED <<now, agents, reply, offlineLog, coreAudit>>
    /\ UNCHANGED <<opVars, rpcVars, linkVars, diffed, loaded, touched, authz, fwd, registry>>

\* A sweep that would let go of the mutex once it has read LastSeen.
monitorReadUnlocked(id) ==
    /\ sweep.pc = "range" /\ id \in sweep.todo
    /\ sweep' = [sweep EXCEPT !.mu = "free", !.pc = "decide", !.cur = id,
                              !.todo = @ \ {id},
                              !.elapsed = now - agents[id].LastSeen]
    /\ UNCHANGED coreVars
    /\ UNCHANGED <<opVars, rpcVars, linkVars, diffed, loaded, touched, authz, fwd, registry>>

\* monitorAgents: the next agent of the range loop (a map is ranged over in
\* any order), elapsed := time.Since(agent.LastSeen).
monitorRead(id) ==
    /\ sweep.pc = "range" /\ id \in sweep.todo
    /\ sweep' = [sweep EXCEPT !.pc = "decide", !.cur = id,
                              !.todo = @ \ {id},
                              !.elapsed = now - agents[id].LastSeen]
    /\ UNCHANGED coreVars
    /\ UNCHANGED <<opVars, rpcVars, linkVars, diffed, loaded, touched, authz, fwd, registry>>

\* monitorAgents: the two if statements of the loop body, on the elapsed
\* time it has read.
MarksOffline(a, elapsed) ==
    elapsed > OfflineThreshold /\ a.Status # AgentStatusOffline

monitorDecide(a, elapsed) ==
    LET a1 == IF MarksOffline(a, elapsed)
              THEN [a EXCEPT !.Status = AgentStatusOffline] ELSE a
    IN IF a1.Status = AgentStatusOffline /\ a1.Client
       THEN [a1 EXCEPT !.Client = FALSE]
       ELSE a1

monitorMark ==
    /\ sweep.pc = "decide"
    /\ agents' = [agents EXCEPT
                     ![sweep.cur] = monitorDecide(@, sweep.elapsed)]
    /\ LogAgentOffline(IF MarksOffline(agents[sweep.cur], sweep.elapsed)
                       THEN {sweep.cur} ELSE {})
    /\ sweep' = [sweep EXCEPT !.pc = "range", !.cur = NoId, !.elapsed = 0]
    /\ UNCHANGED <<now, nextSweep, reply>>
    /\ UNCHANGED <<opVars, rpcVars, linkVars, diffed, loaded, touched, authz, fwd, registry>>

\* monitorAgents: the loop is over, c.agents.mu.Unlock().
monitorUnlock ==
    /\ sweep.pc = "range" /\ sweep.todo = {}
    /\ sweep' = [sweep EXCEPT !.mu = "free", !.pc = "wait"]
    /\ UNCHANGED coreVars
    /\ UNCHANGED <<opVars, rpcVars, linkVars, diffed, loaded, touched, authz, fwd, registry>>

\* Core.Heartbeat: c.agents.mu.Lock() returns.
HeartbeatLock(agentID) ==
    /\ sweep.mu = "free"
    /\ sweep' = [sweep EXCEPT !.mu = "Heartbeat", !.beat = agentID]
    /\ UNCHANGED coreVars
    /\ UNCHANGED <<opVars, rpcVars, linkVars, diffed, loaded, touched, authz, fwd, registry>>

\* Core.Heartbeat: its body, and the deferred c.agents.mu.Unlock().
HeartbeatLocked ==
    /\ sweep.mu = "Heartbeat"
    /\ Heartbeat(sweep.beat)
    /\ sweep' = [sweep EXCEPT !.mu = "free", !.beat = NoId]
    /\ UNCHANGED <<linkVars, diffed, loaded, touched, authz, fwd, registry>>

\* Core.RegisterAgent takes the mutex for the whole call.
RegisterLocked(req) ==
    /\ sweep.mu = "free"
    /\ RegisterAgent(req)
    /\ UNCHANGED <<linkVars, fnVars>>

\* ----------------------------- Control Node: proxying to the agents
\* Core.getAgentConnection: the error it returns and the registry it leaves.
\* dialOk: loading the certificates and grpc.Dial succeed.
getAgentConnection(agentID, dialOk) ==
    IF agentID \notin DOMAIN agents
    THEN [err |-> Errorf("agent not found"), agents |-> agents]
    ELSE LET a == agents[agentID]
             recent == now - a.LastSeen <= RecentlySeen
             a1 == IF a.Status = AgentStatusOffline /\ recent
                   THEN [a EXCEPT !.Status = AgentStatusOnline] ELSE a
         IN IF a.Status = AgentStatusOffline /\ ~recent
            THEN [err |-> Errorf("agent offline"), agents |-> agents]
            ELSE IF a1.Client
            THEN [err |-> Nil, agents |-> [agents EXCEPT ![agentID] = a1]]
            ELSE IF dialOk
            THEN [err |-> Nil,
                  agents |-> [agents EXCEPT ![agentID] =
                                 [a1 EXCEPT !.Client = TRUE, !.Address = "8444"]]]
            ELSE [err |-> Errorf("dial agent"),
                  agents |-> [agents EXCEPT ![agentID] = a1]]

\* Core.updateAgentStacks
updateAgentStacks(reg, agentID, stacks) ==
    IF agentID \notin DOMAIN reg THEN reg
    ELSE [reg EXCEPT ![agentID].Stacks = stacks]

\* What the agent answers to a forwarded ListStacks / GetStack.
Upstream(err, stacks) == [err |-> err, stacks |-> stacks]
AgentListStacksResults ==
    {Upstream(Nil, <<>>), Upstream(Nil, <<"web">>), Upstream(Nil, <<"db", "web">>),
     Upstream(StatusError("Unavailable"), <<>>)}
AgentGetStackResults(stackID) ==
    {Upstream(Nil, <<stackID>>), Upstream(StatusError("NotFound"), <<>>)}

\* A proxy that would format the agent's error with %v instead of %w.
ForwardErrorFlattened(err) == Errorf("forward to agent")

\* The error a proxy handler returns when the agent's call failed.
ForwardError(err) == ErrorfW("forward to agent", err)

\* The tail shared by the unary proxies: connect, forward, answer.
Forward(rpc, agentID, dialOk, res) ==
    LET g == getAgentConnection(agentID, dialOk)
    IN IF g.err # Nil
       THEN [agents |-> g.agents,
             reply |-> [Reply(rpc, ErrorfW("get agent connection", g.err))
                           EXCEPT !.agent = agentID]]
       ELSE IF res.err # Nil
       THEN [agents |-> g.agents,
             reply |-> [Reply(rpc, ForwardError(res.err)) EXCEPT
                           !.agent = agentID, !.forwarded = TRUE, !.upstream = res]]
       ELSE [agents |-> g.agents,
             reply |-> [Reply(rpc, Nil) EXCEPT
                           !.agent = agentID, !.forwarded = TRUE,
                           !.upstream = res, !.stacks = res.stacks]]

\* Core.ListStacks
ListStacks(agentID, dialOk, res) ==
    LET f == Forward("ListStacks", agentID, dialOk, res)
    IN /\ agents' = IF f.reply.code = "OK"
                    THEN updateAgentStacks(f.agents, agentID, res.stacks)
                    ELSE f.agents
       /\ reply' = f.reply
       /\ UNCHANGED <<now, nextSweep, offlineLog, coreAudit>>
       /\ UNCHANGED <<opVars, rpcVars>>

\* Core.findAgentWithStack: the agents the scan of the map can stop at.
InStacks(stackID, stacks) == \E i \in 1..Len(stacks) : stacks[i] = stackID
findAgentWithStack(stackID) ==
    {id \in DOMAIN agents : InStacks(stackID, agents[id].Stacks)}

\* Core.GetStack
GetStack(stackID, dialOk, res) ==
    /\ IF findAgentWithStack(stackID) = {}
       THEN /\ reply' = Reply("GetStack",
                              ErrorfW("find agent with stack",
                                      Errorf("stack not found on any agent")))
            /\ UNCHANGED agents
       ELSE \E agentID \in findAgentWithStack(stackID) :
               LET f == Forward("GetStack", agentID, dialOk, res)
               IN agents' = f.agents /\ reply' = f.reply
    /\ UNCHANGED <<now, nextSweep, offlineLog, coreAudit>>
    /\ UNCHANGED <<opVars, rpcVars>>

\* ------------------------------------------ stack.Manager: DiffStack
\* A service of a compose project, and the services the projects are made
\* of: one base service, and for each compared or uncompared field a service
\* that differs from the base in that field alone.
ServiceNames == {"web", "db"}
BaseService ==
    [Image |-> "nginx:1", Ports |-> {"80:80"}, Environment |-> {"A=1"},
     Volumes |-> {}, Command |-> "", Restart |-> "no"]
ServiceConfigs ==
    {BaseService,
     [BaseService EXCEPT !.Image = "nginx:2"],
     [BaseService EXCEPT !.Ports = {"8080:80"}],
     [BaseService EXCEPT !.Ports = {"80:80", "443:443"}],
     [BaseService EXCEPT !.Environment = {"A=2"}],
     [BaseService EXCEPT !.Environment = {"A=1", "B=1"}],
     [BaseService EXCEPT !.Volumes = {"data:/data"}],
     [BaseService EXCEPT !.Command = "nginx -g"],
     [BaseService EXCEPT !.Restart = "always"]}
\* A project: its services by name.
Projects == UNION {[names -> ServiceConfigs] : names \in SUBSET ServiceNames}

DiffActionCreate == "CREATE"
DiffActionUpdate == "UPDATE"
DiffActionDelete == "DELETE"

\* compareServices: the image, the number of ports, the number of
\* environment entries.
compareServices(current, new) ==
    (IF current.Image # new.Image THEN <<"image">> ELSE <<>>)
    \o (IF Cardinality(current.Ports) # Cardinality(new.Ports)
        THEN <<"ports changed">> ELSE <<>>)
    \o (IF Cardinality(current.Environment) # Cardinality(new.Environment)
        THEN <<"environment changed">> ELSE <<>>)

ServiceDiff(name, action, changes) ==
    [Name |-> name, Action |-> action, Changes |-> changes]

\* The orders in which a range over a map with these keys can visit them.
Orders(keys) ==
    {order \in [1..Cardinality(keys) -> keys] :
        \A i, j \in DOMAIN order : i # j => order[i] # order[j]}

\* The first loop of computeDiff, over newServices in the order of the range:
\* an UPDATE entry for a service of both projects that compares different, a
\* CREATE entry for a service of the candidate only.
RECURSIVE NewAndUpdated(_, _, _)
NewAndUpdated(names, current, new) ==
    IF names = <<>> THEN <<>>
    ELSE LET name == Head(names)
             entry ==
                IF name \in DOMAIN current
                THEN IF Len(compareServices(current[name], new[name])) > 0
                     THEN <<ServiceDiff(name, DiffActionUpdate,
                                        compareServices(current[name], new[name]))>>
                     ELSE <<>>
                ELSE <<ServiceDiff(name, DiffActionCreate, <<>>)>>
         IN entry \o NewAndUpdated(Tail(names), current, new)

\* The second loop, over currentServices in the order of the range: a DELETE
\* entry for a service the candidate lacks.
RECURSIVE Deleted(_, _)
Deleted(names, new) ==
    IF names = <<>> THEN <<>>
    ELSE (IF Head(names) \notin DOMAIN new
          THEN <<ServiceDiff(Head(names), DiffActionDelete, <<>>)>> ELSE <<>>)
         \o Deleted(Tail(names), new)

\* computeDiff: the entries in the order the two ranges append them, and
\* HasChanges, set whenever an entry is appended.
computeDiff(current, new, newOrder, currentOrder) ==
    LET services == NewAndUpdated(newOrder, current, new)
                    \o Deleted(currentOrder, new)
    IN [Services |-> services, HasChanges |-> Len(services) > 0]

NoDiff == [ran |-> FALSE, current |-> <<>>, new |-> <<>>,
           result |-> [Services |-> <<>>, HasChanges |-> FALSE]]

\* Manager.DiffStack of a loaded current project against a parsed candidate.
StackDiff(current, new) ==
    /\ ~diffed.ran
    /\ \E newOrder \in Orders(DOMAIN new), currentOrder \in Orders(DOMAIN current) :
          diffed' = [ran |-> TRUE, current |-> current, new |-> new,
                     result |-> computeDiff(current, new, newOrder, currentOrder)]
    /\ UNCHANGED <<loaded, touched, authz, sweep, fwd, registry, opVars, rpcVars, coreVars, linkVars>>

\* ----------------------------- stack.Manager: loadStack, determineState
\* Containers of one compose project in the listing of the Docker daemon.
MaxContainers == 4
DockerStates == {"running", "exited", "paused"}
\* What docker.ContainerList answers: the containers' states, or an error.
ContainerListings ==
    {[err |-> TRUE, containers |-> <<>>]}
    \cup {[err |-> FALSE, containers |-> cs] :
            cs \in UNION {[1..n -> DockerStates] : n \in 0..MaxContainers}}

StateRunning == "running"
StateStopped == "stopped"
StatePartial == "partial"

CountRunning(containers) ==
    Cardinality({i \in 1..Len(containers) : containers[i] = "running"})

determineState(containers) ==
    IF Len(containers) = 0 THEN StateStopped
    ELSE IF CountRunning(containers) = Len(containers) THEN StateRunning
    ELSE IF Len(containers) - CountRunning(containers) = Len(containers)
    THEN StateStopped
    ELSE StatePartial

NoLoad == [ran |-> FALSE, listing |-> [err |-> FALSE, containers |-> <<>>],
           err |-> "nil", State |-> "none"]

\* loadStack of a stack whose directory and compose file are there: the
\* containers are listed, a failure of the listing is returned as an error
\* and no Stack is built.
loadStack(listing) ==
    /\ ~loaded.ran
    /\ loaded' = IF listing.err
                 THEN [ran |-> TRUE, listing |-> listing,
                       err |-> "get containers", State |-> "none"]
                 ELSE [ran |-> TRUE, listing |-> listing,
                       err |-> "nil", State |-> determineState(listing.containers)]
    /\ UNCHANGED <<diffed, touched, authz, sweep, fwd, registry, opVars, rpcVars, coreVars, linkVars>>

\* ------------------------------------- paths the Agent touches for a caller
\* A path is the sequence of its segments below "/".
MaxSegments == 3
StackRoot == <<"var", "stacks">>
NameSegments == {"web", "..", "etc"}
\* Stack names a client may send ("web", "../etc", "../../etc", ...).
StackNames == UNION {[1..n -> NameSegments] : n \in 1..MaxSegments}
\* Absolute paths a caller may ask to read.
ReadPaths ==
    UNION {[1..n -> NameSegments \cup {"var", "stacks"}] : n \in 1..MaxSegments}

\* filepath.Clean of an absolute path: ".." removes the segment before it,
\* and is dropped at the root.
RECURSIVE CleanFrom(_, _)
CleanFrom(done, rest) ==
    IF rest = <<>> THEN done
    ELSE IF Head(rest) = ".."
    THEN CleanFrom(IF done = <<>> THEN <<>> ELSE SubSeq(done, 1, Len(done) - 1),
                   Tail(rest))
    ELSE CleanFrom(Append(done, Head(rest)), Tail(rest))

Clean(path) == CleanFrom(<<>>, path)

\* filepath.Join(elem...): the elements joined, then cleaned.
Join(a, b) == Clean(a \o b)

Access(op, path) == [op |-> op, path |-> path]
NoAccess == [ran |-> FALSE, call |-> "none", accesses |-> {}]

\* filesystem.Manager.ReadFile: os.ReadFile(path).
ReadFile(path) ==
    /\ ~touched.ran
    /\ touched' = [ran |-> TRUE, call |-> "ReadFile",
                   accesses |-> {Access("read", Clean(path))}]
    /\ UNCHANGED <<diffed, loaded, authz, sweep, fwd, registry, opVars, rpcVars, coreVars, linkVars>>

\* The filesystem calls of stack.Manager.ApplyStack for a stack name:
\* MkdirAll(stackPath), WriteFile(stackPath/compose.yaml).
ApplyStackFiles(name) ==
    LET stackPath == Join(StackRoot, name)
    IN /\ ~touched.ran
       /\ touched' = [ran |-> TRUE, call |-> "ApplyStack",
                      accesses |-> {Access("mkdir", stackPath),
                                    Access("write", Join(stackPath, <<"compose.yaml">>))}]
       /\ UNCHANGED <<diffed, loaded, authz, sweep, fwd, registry, opVars, rpcVars, coreVars, linkVars>>

\* The filesystem call of stack.Manager.RemoveStack / executeRemove for a
\* stack name: os.RemoveAll(stackPath).
RemoveStackFiles(name) ==
    LET stackPath == Join(StackRoot, name)
    IN /\ ~touched.ran
       /\ touched' = [ran |-> TRUE, call |-> "RemoveStack",
                      accesses |-> {Access("removeAll", stackPath)}]
       /\ UNCHANGED <<diffed, loaded, authz, sweep, fwd, registry, opVars, rpcVars, coreVars, linkVars>>

\* ------------------------------------------------ the RBAC plugin
\* Strings the plugin takes apart are sequences of pieces: "stack:*" is
\* <<"stack:", "*">>, "stack:web" is <<"stack:", "web">>, "" is <<>>.
Permission(resource, actions) == [Resource |-> resource, Actions |-> actions]
\* The roles of loadDefaultRoles.
Roles ==
    [admin |-> {Permission(<<"*">>, {"*"})},
     operator |-> {Permission(<<"stack:", "*">>, {"read", "write"}),
                   Permission(<<"container:", "*">>, {"read", "exec"}),
                   Permission(<<"image:", "*">>, {"read"})},
     viewer |-> {Permission(<<"*">>, {"read"})}]
\* Role names a user record may carry ("auditor" is no role of the plugin).
RoleNames == {"admin", "operator", "viewer", "auditor"}
RequestResources ==
    {<<"stack:", "web">>, <<"container:", "web">>, <<"image:", "nginx">>,
     <<"file:", "compose.yaml">>}
RequestActions == {"read", "write", "exec", "delete"}

HasSuffixStar(str) == Len(str) > 0 /\ str[Len(str)] = "*"
HasPrefix(str, prefix) ==
    Len(prefix) <= Len(str) /\ SubSeq(str, 1, Len(prefix)) = prefix

matchesResource(pattern, resource) ==
    IF pattern = <<"*">> THEN TRUE
    ELSE IF HasSuffixStar(pattern)
    THEN HasPrefix(resource, SubSeq(pattern, 1, Len(pattern) - 1))
    ELSE pattern = resource

matchesAction(allowed, action) == \E a \in allowed : a = "*" \/ a = action

roleHasPermission(role, action) ==
    \E perm \in role : /\ matchesResource(perm.Resource, action.Resource)
                       /\ matchesAction(perm.Actions, action.Action)

\* Authorize: the error text, "" for nil.  user.known: the identity is a key
\* of p.users.
Authorize(user, action) ==
    IF ~user.known THEN "user not found"
    ELSE IF \E roleName \in user.Roles \cap DOMAIN Roles :
               roleHasPermission(Roles[roleName], action)
    THEN ""
    ELSE "permission denied"

\* Evaluate: the decision made from Authorize(req.Identity, req.Action).
Evaluate(user, action) ==
    [Allowed |-> Authorize(user, action) = "", Reason |-> Authorize(user, action)]

\* The plugin.Action the Agent's policyInterceptor hands to the plugin: the
\* method name alone, Action and Resource left empty.
InterceptorAction(method) == [Method |-> method, Action |-> "", Resource |-> <<>>]

NoDecision == [ran |-> FALSE, user |-> [known |-> FALSE, Roles |-> {}],
               resource |-> <<>>, action |-> "", Allowed |-> FALSE, Reason |-> ""]

\* policyInterceptor with the RBAC plugin as a.plugins.Policy(), for a request
\* of the user on the resource with the action.
policyInterceptor(user, resource, action) ==
    LET decision == Evaluate(user, InterceptorAction("rpc"))
    IN /\ ~authz.ran
       /\ authz' = [ran |-> TRUE, user |-> user, resource |-> resource,
                    action |-> action, Allowed |-> decision.Allowed,
                    Reason |-> decision.Reason]
       /\ UNCHANGED <<diffed, loaded, touched, sweep, fwd, registry, opVars, rpcVars, coreVars, linkVars>>

\* --------------------- Control Node: proxying server-streaming calls
\* What the agent's stream will deliver: its messages, then how it ends.
MaxStreamLen == 2
AgentStreams == UNION {[1..n -> {"e1", "e2"}] : n \in 0..MaxStreamLen}
\* agentStream.Recv() at the end of the agent's stream: io.EOF, or the status
\* the agent's handler returned.
EOF == Errorf("EOF")
AgentStreamEnds == {EOF, StatusError("Internal")}

NoRelay == [pc |-> "none", rpc |-> "none", pending |-> <<>>, end |-> Nil,
            from |-> <<>>, sent |-> <<>>, err |-> Nil, code |-> "OK",
            callerCancelled |-> FALSE, agentCancelled |-> FALSE]

\* Core.ApplyStack / Core.GetStackLogs up to the loop: connect to the agent and
\* open its stream on the caller's stream context.
OpenStream(rpc, agentID, dialOk, msgs, end) ==
    LET g == getAgentConnection(agentID, dialOk)
    IN /\ relay.pc = "none"
       /\ agents' = g.agents
       /\ relay' = IF g.err # Nil
                   THEN [NoRelay EXCEPT
                            !.pc = "done", !.rpc = rpc,
                            !.err = ErrorfW("get agent connection", g.err),
                            !.code = StatusCode(ErrorfW("get agent connection", g.err))]
                   ELSE [NoRelay EXCEPT !.pc = "relaying", !.rpc = rpc,
                                        !.pending = msgs, !.from = msgs, !.end = end]
       /\ UNCHANGED <<now, nextSweep, reply, offlineLog, coreAudit, coreUp, link, sent, fnVars>>
       /\ UNCHANGED <<opVars, rpcVars>>

\* The handler returns err: the stream ends with the status of err.
RelayReturn(r, err) == [r EXCEPT !.pc = "done", !.err = err, !.code = StatusCode(err)]

\* One turn of the loop: agentStream.Recv(), then stream.Send(event).
\* sendOk: the caller's stream still takes the message.
RelayStep(sendOk) ==
    /\ relay.pc = "relaying"
    /\ relay' =
          IF relay.agentCancelled
          THEN RelayReturn(relay, StatusError("Canceled"))
          ELSE IF relay.pending = <<>>
          THEN RelayReturn(relay, relay.end)
          ELSE IF sendOk
          THEN [relay EXCEPT !.pending = Tail(@), !.sent = Append(@, Head(relay.pending))]
          ELSE RelayReturn([relay EXCEPT !.pending = Tail(@)], StatusError("Unavailable"))
    /\ UNCHANGED <<coreVars, coreUp, link, sent, opVars, rpcVars, fnVars>>

\* The caller cancels: stream.Context() is the context of the agent's stream.
CallerCancels ==
    /\ relay.pc = "relaying" /\ ~relay.callerCancelled
    /\ relay' = [relay EXCEPT !.callerCancelled = TRUE, !.agentCancelled = TRUE]
    /\ UNCHANGED <<coreVars, coreUp, link, sent, opVars, rpcVars, fnVars>>

\* ------------------- an agent's heartbeat loop and the Control Node
\* The agent's persistent id and the request it registers with.
LinkId == SuppliedId("a1")
LinkRequest ==
    [AgentId |-> "a1", Hostname |-> "node-a", Labels |-> "env=dev",
     Capabilities |-> {"docker", "stack"}]

\* The error a client call returns: a status with the server's code and text.
ClientError(code, text) == [wraps |-> code, text |-> {"rpc error", text}]

\* Agent.shouldReconnect
shouldReconnect(err) ==
    \/ StatusCode(err) = "Unavailable"
    \/ StatusCode(err) = "DeadlineExceeded"
    \/ err.text \cap {"connection refused", "connection reset", "broken pipe"} # {}

\* NewAgent: registerWithServer, then go startHeartbeat().
LinkStart ==
    /\ link.pc = "start" /\ coreUp
    /\ RegisterAgent(LinkRequest)
    /\ link' = [link EXCEPT !.pc = "idle"]
    /\ UNCHANGED <<coreUp, relay, sent, fnVars>>

\* Agent.sendHeartbeat as called by startHeartbeat on a tick of its ticker,
\* and the decision to reconnect.
SendHeartbeat ==
    /\ link.pc = "idle"
    /\ IF coreUp
       THEN /\ Heartbeat(LinkId)
            /\ LET err == IF reply'.code = "OK" THEN Nil
                          ELSE ErrorfW("send heartbeat",
                                       ClientError(reply'.code, "agent not found"))
               IN link' = [pc |-> IF err # Nil /\ shouldReconnect(err)
                                  THEN "reconnect" ELSE "idle",
                           lastErr |-> err, beat |-> 1 - link.beat]
       ELSE /\ LET err == ErrorfW("send heartbeat",
                                  ClientError("Unavailable", "connection refused"))
               IN link' = [pc |-> IF shouldReconnect(err) THEN "reconnect" ELSE "idle",
                           lastErr |-> err, beat |-> 1 - link.beat]
            /\ UNCHANGED <<coreVars, opVars, rpcVars>>
    /\ UNCHANGED <<coreUp, relay, sent, fnVars>>

\* Agent.reconnectToServer: a new connection, then registerWithServer.
reconnectToServer ==
    /\ link.pc = "reconnect"
    /\ IF coreUp THEN RegisterAgent(LinkRequest)
       ELSE UNCHANGED <<coreVars, opVars, rpcVars>>
    /\ link' = [link EXCEPT !.pc = "idle"]
    /\ UNCHANGED <<coreUp, relay, sent, fnVars>>

\* The Control Node process stops; NewCore starts it with an empty registry.
CoreStop ==
    /\ coreUp /\ coreUp' = FALSE
    /\ UNCHANGED <<link, relay, sent, coreVars, opVars, rpcVars, fnVars>>

NewCore ==
    /\ ~coreUp /\ coreUp' = TRUE
    /\ agents' = <<>>
    /\ nextSweep' = now + SweepInterval
    /\ UNCHANGED <<now, reply, offlineLog, coreAudit, link, relay, sent, opVars, rpcVars, fnVars>>

\* -------------------- Control Node: ListStacks calls, statement by statement
\* ListStacks calls in flight at once.
MaxForwards == 2
\* AgentConnection records RegisterAgent creates for the agent.
MaxRecords == 2
\* Channels grpc.Dial creates.
MaxChannels == 2

\* A ListStacks call: where it is, the record getAgentConnection returned
\* (rec), the channel it read from that record (ch) and the agent's answer.
IdleForward == [pc |-> "idle", rec |-> 0, ch |-> 0, res |-> NoUpstream,
                code |-> "OK"]
\* record[k]: the Client field of the k-th AgentConnection made for the
\* agent (0: nil); the registry's map holds the last one. chans[n]: the
\* n-th channel dialed. last: the response of the call that returned last.
NoForward == [calls |-> [c \in 1..MaxForwards |-> IdleForward],
              record |-> <<>>, chans |-> <<>>, panic |-> FALSE,
              last |-> [ok |-> FALSE, stacks |-> <<>>]]

ForwardReturn(f, c, err) ==
    [f EXCEPT !.calls[c].pc = "done", !.calls[c].code = StatusCode(err)]

\* Core.RegisterAgent puts a new record, without a channel, in the map.
ForwardRegister ==
    /\ ~fwd.panic
    /\ Len(fwd.record) < MaxRecords
    /\ RegisterAgent(LinkRequest)
    /\ fwd' = [fwd EXCEPT !.record = Append(@, 0)]
    /\ UNCHANGED <<linkVars, diffed, loaded, touched, authz, sweep, registry>>

\* Core.monitorAgents: Close() and Client = nil on the records of the map.
ForwardSweep ==
    /\ ~fwd.panic
    /\ monitorAgents
    /\ fwd' = IF /\ LinkId \in DOMAIN agents
                 /\ agents[LinkId].Client
                 /\ ~SweepAgent(agents[LinkId]).Client
              THEN [fwd EXCEPT
                       !.chans[fwd.record[Len(fwd.record)]] = "closed",
                       !.record[Len(fwd.record)] = 0]
              ELSE fwd
    /\ UNCHANGED <<linkVars, diffed, loaded, touched, authz, sweep, registry>>

\* Core.Heartbeat and the clock, while the process runs.
ForwardHeartbeat ==
    ~fwd.panic /\ Heartbeat(LinkId) /\ UNCHANGED <<linkVars, fnVars>>

ForwardTick == ~fwd.panic /\ Tick /\ UNCHANGED <<linkVars, fnVars>>

\* Core.ListStacks: conn, err := c.getAgentConnection(agentID)
ListStacksConnect(c, dialOk) ==
    LET g == getAgentConnection(LinkId, dialOk)
        err == ErrorfW("get agent connection", g.err)
        dials == /\ g.err = Nil /\ ~agents[LinkId].Client
    IN /\ ~fwd.panic
       /\ fwd.calls[c].pc = "idle"
       /\ dials => Len(fwd.chans) < MaxChannels
       /\ agents' = g.agents
       /\ IF g.err # Nil
          THEN /\ fwd' = ForwardReturn(fwd, c, err)
               /\ reply' = [Reply("ListStacks", err) EXCEPT !.agent = LinkId]
          ELSE /\ fwd' = [fwd EXCEPT
                             !.calls[c].pc = "connected",
                             !.calls[c].rec = Len(fwd.record),
                             !.chans = IF dials THEN Append(@, "open") ELSE @,
                             !.record[Len(fwd.record)] =
                                 IF dials THEN Len(fwd.chans) + 1 ELSE @]
               /\ UNCHANGED reply
       /\ UNCHANGED <<now, nextSweep, offlineLog, coreAudit>>
       /\ UNCHANGED <<opVars, rpcVars, linkVars>>
       /\ UNCHANGED <<diffed, loaded, touched, authz, sweep, registry>>

\* Core.ListStacks: agentv1.NewStackServiceClient(conn.Client), read with
\* the registry mutex released; Invoke on a nil *grpc.ClientConn panics and
\* the Control Node has no recovery interceptor.
ListStacksClient(c) ==
    LET ch == fwd.record[fwd.calls[c].rec]
    IN /\ ~fwd.panic
       /\ fwd.calls[c].pc = "connected"
       /\ fwd' = IF ch = 0
                 THEN [fwd EXCEPT !.calls[c].pc = "panic", !.panic = TRUE]
                 ELSE [fwd EXCEPT !.calls[c].pc = "forwarding",
                                  !.calls[c].ch = ch]
       /\ UNCHANGED <<opVars, rpcVars, coreVars, linkVars>>
       /\ UNCHANGED <<diffed, loaded, touched, authz, sweep, registry>>

\* Core.ListStacks: resp, err := stackClient.ListStacks(ctx, req); a closed
\* channel answers every call with an error.
ListStacksInvoke(c, res) ==
    /\ ~fwd.panic
    /\ fwd.calls[c].pc = "forwarding"
    /\ fwd.chans[fwd.calls[c].ch] = "closed" => res.err = StatusError("Canceled")
    /\ IF res.err # Nil
       THEN /\ fwd' = ForwardReturn(fwd, c, ForwardError(res.err))
            /\ reply' = [Reply("ListStacks", ForwardError(res.err)) EXCEPT
                            !.agent = LinkId, !.forwarded = TRUE,
                            !.upstream = res]
       ELSE /\ fwd' = [fwd EXCEPT !.calls[c].pc = "answered",
                                  !.calls[c].res = res]
            /\ UNCHANGED reply
    /\ UNCHANGED <<now, nextSweep, agents, offlineLog, coreAudit>>
    /\ UNCHANGED <<opVars, rpcVars, linkVars>>
    /\ UNCHANGED <<diffed, loaded, touched, authz, sweep, registry>>

\* Core.ListStacks: c.updateAgentStacks(agentID, stackIDs)
ListStacksUpdate(c) ==
    /\ ~fwd.panic
    /\ fwd.calls[c].pc = "answered"
    /\ agents' = updateAgentStacks(agents, LinkId, fwd.calls[c].res.stacks)
    /\ fwd' = [fwd EXCEPT !.calls[c].pc = "updated"]
    /\ UNCHANGED <<now, nextSweep, reply, offlineLog, coreAudit>>
    /\ UNCHANGED <<opVars, rpcVars, linkVars>>
    /\ UNCHANGED <<diffed, loaded, touched, authz, sweep, registry>>

\* Core.ListStacks: return resp, nil
ListStacksReturn(c) ==
    /\ ~fwd.panic
    /\ fwd.calls[c].pc = "updated"
    /\ fwd' = [ForwardReturn(fwd, c, Nil) EXCEPT
                  !.last = [ok |-> TRUE, stacks |-> fwd.calls[c].res.stacks]]
    /\ reply' = [Reply("ListStacks", Nil) EXCEPT
                    !.agent = LinkId, !.forwarded = TRUE,
                    !.upstream = fwd.calls[c].res,
                    !.stacks = fwd.calls[c].res.stacks]
    /\ UNCHANGED <<now, nextSweep, agents, offlineLog, coreAudit>>
    /\ UNCHANGED <<opVars, rpcVars, linkVars>>
    /\ UNCHANGED <<diffed, loaded, touched, authz, sweep, registry>>


\* ------------------------------------------------------- plugin.Registry
MaxPlugins == 3
\* The plugins that can be registered, by name.
PluginNames == 1..MaxPlugins

\* A new Registry: no plugin, and no call made on one. `inits` and `shutdowns`
\* are the plugins whose Init and Shutdown were called, in the order of the
\* calls; `failed` the Shutdown calls that returned an error.
NoRegistry ==
    [plugins |-> {}, phase |-> "open", inits |-> <<>>, initErr |-> FALSE,
     shutdowns |-> <<>>, failed |-> {}, lastErr |-> 0]

\* Registry.Register of a plugin whose name is not registered yet.
Register(p) ==
    /\ registry.phase = "open"
    /\ p \notin registry.plugins
    /\ registry' = [registry EXCEPT !.plugins = @ \cup {p}]
    /\ UNCHANGED <<diffed, loaded, touched, authz, sweep, fwd, opVars, rpcVars, coreVars, linkVars>>

\* The calls of a range that stops at the first plugin of `failing`.
RECURSIVE UntilError(_, _)
UntilError(order, failing) ==
    IF order = <<>> THEN <<>>
    ELSE IF Head(order) \in failing THEN <<Head(order)>>
    ELSE <<Head(order)>> \o UntilError(Tail(order), failing)

\* Registry.Init: Init of every plugin in the order of the range over the
\* map, returning at the first error.
RegistryInit(order, failing) ==
    /\ registry.phase = "open"
    /\ registry.plugins # {}
    /\ registry' = [registry EXCEPT
                       !.phase = "initialised",
                       !.inits = UntilError(order, failing),
                       !.initErr = failing \cap registry.plugins # {}]
    /\ UNCHANGED <<diffed, loaded, touched, authz, sweep, fwd, opVars, rpcVars, coreVars, linkVars>>

\* lastErr after a range in this order: the error of the last plugin of
\* `failing` met, 0 (nil) when none failed.
RECURSIVE LastError(_, _)
LastError(order, failing) ==
    IF order = <<>> THEN 0
    ELSE IF order[Len(order)] \in failing THEN order[Len(order)]
    ELSE LastError(SubSeq(order, 1, Len(order) - 1), failing)

\* Registry.ShutdownAll: Shutdown of every plugin in the order of the range
\* over the map, going on after an error.
ShutdownAll(order, failing) ==
    /\ registry.phase = "initialised"
    /\ registry' = [registry EXCEPT
                       !.phase = "down",
                       !.shutdowns = order,
                       !.failed = failing,
                       !.lastErr = LastError(order, failing)]
    /\ UNCHANGED <<diffed, loaded, touched, authz, sweep, fwd, opVars, rpcVars, coreVars, linkVars>>

\* A registry from its creation to its shutdown.
NextRegistry ==
    \/ \E p \in PluginNames : Register(p)
    \/ \E order \in Orders(registry.plugins), failing \in SUBSET registry.plugins :
          RegistryInit(order, failing)
    \/ \E order \in Orders(registry.plugins), failing \in SUBSET registry.plugins :
          ShutdownAll(order, failing)

\* ------------------------------------------------------------ Spec
Init ==
    /\ operations = <<>>
    /\ listeners = [o \in OpIds |-> <<>>]
    /\ chan = [o \in OpIds |-> <<>>]
    /\ lastDelivered = [o \in OpIds |-> NoDelivery]
    /\ wpc = [o \in OpIds |-> "none"]
    /\ hpc = [o \in OpIds |-> "none"]
    /\ pullImages = [o \in OpIds |-> FALSE]
    /\ dirs = {}
    /\ apiCalls = 0
    /\ calls = [c \in Calls |-> IdleCall]
    /\ auditLog = [c \in Calls |-> <<>>]
    /\ now = 0
    /\ nextSweep = SweepInterval
    /\ agents = <<>>
    /\ reply = NoReply
    /\ offlineLog = <<>>
    /\ coreAudit = <<>>
    /\ coreUp = TRUE
    /\ link = [pc |-> "start", lastErr |-> Nil, beat |-> 0]
    /\ relay = NoRelay
    /\ sent = [o \in OpIds |-> <<>>]
    /\ diffed = NoDiff
    /\ loaded = NoLoad
    /\ touched = NoAccess
    /\ authz = NoDecision
    /\ sweep = NoSweep
    /\ fwd = NoForward
    /\ registry = NoRegistry

Worker ==
    \/ \E o \in OpIds : WorkerStart(o)
    \/ \E o \in OpIds : WorkerAnnounce(o)
    \/ \E o \in OpIds, ok \in BOOLEAN : ApplyParse(o, ok)
    \/ \E o \in OpIds, ok \in BOOLEAN : ApplyPull(o, ok)
    \/ \E o \in OpIds, ok \in BOOLEAN : ApplyUp(o, ok)
    \/ \E o \in OpIds, ok \in BOOLEAN : RemoveDown(o, ok)
    \/ \E o \in OpIds, ok \in BOOLEAN : RemoveDir(o, ok)
    \/ \E o \in OpIds : WorkerComplete(o)

Next ==
    \/ \E s \in Stacks, pull \in BOOLEAN, env \in BOOLEAN, fs \in FsOutcomes :
          StackApply(s, pull, env, fs)
    \/ \E s \in Stacks : StackRemove(s)
    \/ Worker
    \/ \E o \in OpIds : ApiCancel(o)

Spec == Init /\ [][Next]_vars

\* The stack manager and its workers alone: no call comes from outside the
\* agent but ApplyStack and RemoveStack.
NextApply ==
    \/ \E s \in Stacks, pull \in BOOLEAN, env \in BOOLEAN, fs \in FsOutcomes :
          StackApply(s, pull, env, fs)
    \/ \E s \in Stacks : StackRemove(s)
    \/ Worker

SpecApply == Init /\ [][NextApply]_vars

NextStream ==
    \/ \E s \in Stacks, pull \in BOOLEAN, fs \in FsOutcomes :
          ApplyStack(s, pull, FALSE, fs)
    \/ \E s \in Stacks : RemoveStack(s)
    \/ Worker
    \/ \E o \in OpIds : ApiCancel(o)
    \/ \E o \in OpIds, p \in ProgressInputs : ApiSetProgress(o, p)
    \/ \E o \in OpIds : HandlerSubscribe(o)
    \/ \E o \in OpIds : HandlerRecv(o)
    \/ \E o \in OpIds : HandlerCtxDone(o)

SpecStream == Init /\ [][NextStream]_vars

\* One stream of the Agent whose operation may be cancelled: the worker, the
\* subscribed handler and Cancel calls from outside.
NextCancel ==
    \/ \E s \in Stacks, pull \in BOOLEAN : ApplyStack(s, pull, FALSE, "ok")
    \/ \E s \in Stacks : RemoveStack(s)
    \/ Worker
    \/ \E o \in OpIds : ApiCancel(o)
    \/ \E o \in OpIds : HandlerSubscribe(o)
    \/ \E o \in OpIds : HandlerRecv(o)

SpecCancel == Init /\ [][NextCancel]_vars

\* The same stream where every goroutine that can take a step takes one in
\* the end: the worker, and the handler at its Subscribe and at its receive.
\* The client stays connected (ctx is never done), and whether Cancel is
\* called is up to its caller.
FairCancel ==
    /\ SpecCancel
    /\ WF_vars(Worker)
    /\ \A o \in OpIds : WF_vars(HandlerSubscribe(o)) /\ WF_vars(HandlerRecv(o))

NextRpc ==
    \/ \E server \in Servers, method \in Methods,
          policy \in PolicyDispositions, nAudit \in 0..MaxAuditPlugins :
          Invoke(server, method, policy, nAudit)
    \/ \E nAudit \in 0..MaxAuditPlugins : Replay(nAudit)
    \/ \E c \in Calls, cert \in BOOLEAN, auth \in {"none", "ok", "reject"} :
          AuthInterceptor(c, cert, auth)
    \/ \E c \in Calls : PolicyInterceptor(c)
    \/ \E c \in Calls, outcome \in {"ok", "err", "panic"} : Handler(c, outcome)
    \/ \E c \in Calls, s \in Stacks, pull \in BOOLEAN,
          fs \in FsOutcomes, outcome \in {"ok", "err", "panic"} :
          HandlerApplyStack(c, s, pull, FALSE, fs, outcome)
    \/ \E c \in Calls : RecoveryInterceptor(c)
    \/ \E c \in Calls, failing \in SUBSET (1..MaxAuditPlugins) :
          AuditInterceptor(c, failing)

SpecRpc == Init /\ [][NextRpc]_vars

\* The Control Node's registry and its clock.
NextCore ==
    \/ \E req \in RegisterRequests : RegisterAgent(req) /\ UNCHANGED <<linkVars, fnVars>>
    \/ \E id \in AddressedIds : Heartbeat(id) /\ UNCHANGED <<linkVars, fnVars>>
    \/ monitorAgents /\ UNCHANGED <<linkVars, fnVars>>
    \/ Tick /\ UNCHANGED <<linkVars, fnVars>>

SpecCore == Init /\ [][NextCore]_vars

\* The Control Node as a proxy: agents register and callers reach them.
NextProxy ==
    \/ \E req \in RegisterRequests : RegisterAgent(req) /\ UNCHANGED <<linkVars, fnVars>>
    \/ \E id \in AddressedIds, dialOk \in BOOLEAN, res \in AgentListStacksResults :
          ListStacks(id, dialOk, res) /\ UNCHANGED <<linkVars, fnVars>>
    \/ \E stackID \in Stacks, dialOk \in BOOLEAN :
          \E res \in AgentGetStackResults(stackID) :
             GetStack(stackID, dialOk, res) /\ UNCHANGED <<linkVars, fnVars>>

SpecProxy == Init /\ [][NextProxy]_vars

\* Server-streaming calls proxied by the Control Node, one after another.
RelayDone ==
    /\ relay.pc = "done"
    /\ relay' = NoRelay
    /\ UNCHANGED <<coreVars, coreUp, link, sent, opVars, rpcVars, fnVars>>

NextRelay ==
    \/ \E req \in RegisterRequests : RegisterAgent(req) /\ UNCHANGED <<linkVars, fnVars>>
    \/ \E rpc \in {"ApplyStack", "GetStackLogs"}, id \in AddressedIds,
          dialOk \in BOOLEAN, msgs \in AgentStreams, end \in AgentStreamEnds :
          OpenStream(rpc, id, dialOk, msgs, end)
    \/ \E sendOk \in BOOLEAN : RelayStep(sendOk)
    \/ CallerCancels
    \/ RelayDone

SpecRelay == Init /\ [][NextRelay]_vars

\* One operation of the Agent while SetProgress is called with any value.
NextProgress ==
    \/ \E s \in Stacks, pull \in BOOLEAN : ApplyStack(s, pull, FALSE, "ok")
    \/ \E s \in Stacks : RemoveStack(s)
    \/ Worker
    \/ \E o \in OpIds, p \in AnyProgress : ApiSetProgress(o, p)
    \/ \E o \in OpIds : HandlerSubscribe(o)
    \/ \E o \in OpIds : HandlerRecv(o)

SpecProgress == Init /\ [][NextProgress]_vars

\* One operation with its publishers and two subscribers.
NextEvents ==
    \/ CreateCall
    \/ \E f \in Publishers : now < MaxEvents /\ PublishCall(1, f)
    \/ \E ch \in Subscribers : SubscribeCall(1, ch)
    \/ \E ch \in Subscribers : TakeCall(ch)
    \/ \E ch \in Subscribers : UnsubscribeCall(1, ch)

SpecEvents == Init /\ [][NextEvents]_vars

\* One operation while it runs: longer runs of the calls that report on it.
NextOrder ==
    \/ CreateCall
    \/ \E f \in Reporters : now < MaxOrdered /\ PublishCall(1, f)
    \/ \E ch \in Subscribers : SubscribeCall(1, ch)
    \/ \E ch \in Subscribers : ReceiveCall(ch)
    \/ \E ch \in Subscribers : UnsubscribeCall(1, ch)

SpecOrder == Init /\ [][NextOrder]_vars

\* The registry with its mutex: Heartbeat calls and the steps of the health
\* sweep, interleaved.
NextSweep ==
    \/ \E req \in RegisterRequests : RegisterLocked(req)
    \/ \E id \in AddressedIds : HeartbeatLock(id)
    \/ HeartbeatLocked
    \/ monitorLock
    \/ \E id \in DOMAIN agents : monitorRead(id)
    \/ monitorMark
    \/ monitorUnlock
    \/ Tick /\ UNCHANGED <<linkVars, fnVars>>

SpecSweep == Init /\ [][NextSweep]_vars

\* ListStacks calls for one agent, statement by statement, against
\* RegisterAgent, Heartbeat, the health sweep and time; a panic ends the
\* process, and nothing runs after it.
NextForward ==
    \/ ForwardRegister
    \/ ForwardHeartbeat
    \/ ForwardSweep
    \/ ForwardTick
    \/ \E c \in 1..MaxForwards, dialOk \in BOOLEAN : ListStacksConnect(c, dialOk)
    \/ \E c \in 1..MaxForwards : ListStacksClient(c)
    \/ \E c \in 1..MaxForwards,
          res \in AgentListStacksResults \cup {Upstream(StatusError("Canceled"), <<>>)} :
          ListStacksInvoke(c, res)
    \/ \E c \in 1..MaxForwards : ListStacksUpdate(c)
    \/ \E c \in 1..MaxForwards : ListStacksReturn(c)

SpecForward == Init /\ [][NextForward]_vars

\* One DiffStack call of the stack manager, for every pair of projects.
NextDiff == \E current \in Projects, new \in Projects : StackDiff(current, new)

SpecDiff == Init /\ [][NextDiff]_vars

SpecRegistry == Init /\ [][NextRegistry]_vars

\* One GetStack of the stack manager, for every listing of containers.
NextLoad == \E listing \in ContainerListings : loadStack(listing)

SpecLoad == Init /\ [][NextLoad]_vars

\* One call that touches the filesystem, for every path and stack name.
NextFiles ==
    \/ \E path \in ReadPaths : ReadFile(path)
    \/ \E name \in StackNames : ApplyStackFiles(name)
    \/ \E name \in StackNames : RemoveStackFiles(name)

SpecFiles == Init /\ [][NextFiles]_vars

\* One request through the policy step, for every user, resource and action.
NextPolicy ==
    \E known \in BOOLEAN, roles \in SUBSET RoleNames,
       resource \in RequestResources, action \in RequestActions :
       policyInterceptor([known |-> known, Roles |-> roles], resource, action)

SpecPolicy == Init /\ [][NextPolicy]_vars

\* One agent's heartbeat loop against a Control Node that may restart.  The
\* tickers keep firing, so the loop's steps are taken whenever they can be.
NextLink ==
    \/ LinkStart
    \/ SendHeartbeat
    \/ reconnectToServer
    \/ CoreStop
    \/ NewCore
    \/ coreUp /\ monitorAgents /\ UNCHANGED <<linkVars, fnVars>>
    \/ Tick /\ UNCHANGED <<linkVars, fnVars>>

SpecLink ==
    /\ Init /\ [][NextLink]_vars
    /\ WF_vars(LinkStart) /\ WF_vars(SendHeartbeat) /\ WF_vars(reconnectToServer)

\* =================================================================
\* Properties
\* =================================================================

\* The state machine of an operation: pending -> running,
\* running -> {completed, failed, cancelled}.
LegalTransition(a, b) ==
    \/ a = OperationStatePending /\ b = OperationStateRunning
    \/ a = OperationStateRunning /\ b \in Terminal

\* C1: every change of an operation's state made by SetState, SetError,
\* SetCompleted or Cancel is a legal transition (pending -> running, running ->
\* completed / failed / cancelled); in particular the state of an operation
\* that is completed, failed or cancelled never changes again.
C1_LegalTransitions ==
    [][\A o \in DOMAIN operations :
          operations'[o].State # operations[o].State
             => LegalTransition(operations[o].State, operations'[o].State)]_vars

\* Position of a state on the legal path.
Rank(state) ==
    CASE state = OperationStatePending -> 0
      [] state = OperationStateRunning -> 1
      [] OTHER -> 2

\* C2: for every subscriber, the states of the events delivered to it are a
\* prefix of a legal path (pending, running, then at most one terminal
\* state): an event is delivered only when the event delivered before it
\* carried no terminal state and no later state of the path.
C2_SubscriberSeesLegalPath ==
    [][\A ch \in OpIds :
          (lastDelivered'[ch].n > lastDelivered[ch].n /\ lastDelivered[ch].n > 0)
             => /\ lastDelivered[ch].last.State \notin Terminal
                /\ Rank(lastDelivered[ch].last.State)
                      <= Rank(lastDelivered'[ch].last.State)]_vars

\* C3: for every stack name, at most one apply / remove operation for it is
\* running at any instant.
RunningOn(s) ==
    {o \in DOMAIN operations :
        operations[o].Stack = s /\ operations[o].State = OperationStateRunning}

C3_OneRunningPerStack ==
    \A s \in Stacks : Cardinality(RunningOn(s)) <= 1

\* Every registered audit plugin holds exactly one entry of the call, with
\* the given result.
AuditedOnce(c, result) ==
    \A i \in 1..calls[c].nAudit :
        /\ Cardinality({k \in 1..Len(auditLog[c]) : auditLog[c][k].plugin = i}) = 1
        /\ \A k \in 1..Len(auditLog[c]) :
              auditLog[c][k].plugin = i => auditLog[c][k].Result = result

DeniedApply(c) ==
    /\ calls[c].pc # "idle"
    /\ calls[c].server = "agent" /\ calls[c].method = "ApplyStack"
    /\ calls[c].policy = "deny"
    /\ calls[c].identity = "user"

\* C4: an ApplyStack call on an Agent whose policy plugin denies the
\* authenticated caller never enters the stack manager, and ends with PermissionDenied and an
\* audit entry with result=error.
C4_DeniedApplyNeverEnters ==
    \A c \in Calls :
        DeniedApply(c)
           => /\ ~calls[c].entered
              /\ Finished(c) => /\ calls[c].err = "PermissionDenied"
                                /\ AuditedOnce(c, "error")

InTrace(r, stage) == \E k \in 1..Len(r.trace) : r.trace[k] = stage

\* C5: the handler of a server-streaming RPC, on the Agent and on the Control
\* Node, runs only with an authenticated identity in the stream's context and
\* after an allow decision of the registered policy plugin, and one audit
\* entry is emitted when the stream ends.
C5_StreamSameChain ==
    \A c \in Calls :
        (Kind(calls[c].method) = "stream" /\ calls[c].handlerRan)
           => /\ calls[c].identity = "user"
              /\ calls[c].policy # "none"
                    => calls[c].policy = "allow" /\ InTrace(calls[c], "policy")
              /\ calls[c].pc = "done" => AuditedOnce(c, resultString(calls[c].err))

Before(r, a, b) ==
    \E i, j \in 1..Len(r.trace) : i < j /\ r.trace[i] = a /\ r.trace[j] = b

\* C6: the first step a unary RPC takes, on either server, is to enter the
\* recovery interceptor, and a call that reaches its handler has passed
\* authentication and then the policy step before it.
C6_FixedOrder ==
    \A c \in Calls :
        (calls[c].trace # <<>> /\ Kind(calls[c].method) = "unary")
           => /\ calls[c].trace[1] = "recovery.enter"
              /\ calls[c].handlerRan
                    => /\ Before(calls[c], "auth", "policy")
                       /\ Before(calls[c], "policy", "handler")

\* C7: where a call passes the policy step, a decision Allowed=false or an
\* error of the plugin (with or without a decision) ends the call with
\* PermissionDenied and the handler does not run.
C7_PolicyStepDenies ==
    \A c \in Calls :
        (InTrace(calls[c], "policy")
            /\ calls[c].policy \in {"deny", "errDecision", "errNil"})
           => /\ ~calls[c].handlerRan
              /\ Finished(c) => calls[c].err = "PermissionDenied"

\* C8: a call whose handler ran ends with one audit entry at every registered
\* audit plugin, result=success exactly when the call returned no error, a
\* panic of the handler having become Internal.
C8_AuditAfterHandler ==
    \A c \in Calls :
        (calls[c].handlerRan /\ Finished(c))
           => /\ calls[c].pc = "done"
              /\ calls[c].outcome = "panic" => calls[c].err = "Internal"
              /\ AuditedOnce(c, IF calls[c].outcome = "ok" THEN "success" ELSE "error")

\* The same request under the same conditions, the audit plugins apart.
SameButAudit ==
    /\ calls[1].cert = calls[2].cert
    /\ calls[1].auth = calls[2].auth
    /\ calls[1].outcome = calls[2].outcome

AuthFailed(c) ==
    calls[c].cert = "unverified" \/ calls[c].auth = "reject"

\* C10: a call that fails authentication returns Unauthenticated without
\* running the handler, and every registered audit plugin records the attempt
\* with result=error.
C10_AuthFailureAudited ==
    \A c \in Calls :
        (AuthFailed(c) /\ Finished(c))
           => /\ calls[c].err = "Unauthenticated"
              /\ ~calls[c].handlerRan
              /\ AuditedOnce(c, "error")

\* ------------------------------------------- the agent registry

Fresh(a) == now - a.LastSeen <= OfflineThreshold

AgentOfflineRecords(id) ==
    {k \in 1..Len(coreAudit) :
        coreAudit[k].Action = "agent_offline" /\ coreAudit[k].Agent = id}

C12_OfflineIsAudited ==
    \A id \in DOMAIN agents :
        agents[id].Status = AgentStatusOffline
           => /\ Cardinality(AgentOfflineRecords(id)) = LogCount(id)
              /\ AgentOfflineRecords(id) # {}

\* C14: a RegisterAgent for an agent_id that is registered keeps the record's
\* outbound channel and its known stacks, and touches no other agent's record.
C14_ReRegisterKeepsChannelAndStacks ==
    [][\A req \in RegisterRequests :
          (RegisterAgent(req) /\ RequestedId(req) \in DOMAIN agents)
             => LET id == RequestedId(req)
                IN /\ agents'[id].Client = agents[id].Client
                   /\ agents'[id].Stacks = agents[id].Stacks
                   /\ agents'[id].Status = AgentStatusOnline
                   /\ agents'[id].LastSeen = now
                   /\ \A o \in DOMAIN agents \ {id} : agents'[o] = agents[o]]_vars

\* C15: a Heartbeat for a registered agent sets its last_seen to now and its
\* status to online and changes no other record; a Heartbeat for an unknown
\* agent_id fails with NotFound and leaves the registry as it was.
C15_HeartbeatContract ==
    [][\A id \in AddressedIds :
          Heartbeat(id)
             => IF id \in DOMAIN agents
                THEN /\ reply'.code = "OK"
                     /\ agents' = [agents EXCEPT ![id].LastSeen = now,
                                                 ![id].Status = AgentStatusOnline]
                ELSE /\ reply'.code = "NotFound"
                     /\ agents' = agents]_vars

\* C16: a RegisterAgent for an agent_id not in the registry adopts the
\* supplied id (or generates agent-<hostname>-<unix_ts>), stores a record that
\* is online, last seen now, with no known stacks and no outbound channel,
\* returns that id with a heartbeat interval of 30 s, and ListAgents then has
\* exactly one entry for the id.
C16_FirstRegistration ==
    [][\A req \in RegisterRequests :
          (RegisterAgent(req) /\ RequestedId(req) \notin DOMAIN agents)
             => LET id == reply'.agent
                IN /\ reply'.code = "OK" /\ reply'.interval = 30
                   /\ IF req.AgentId # ""
                      THEN id = [name |-> req.AgentId, host |-> "", ts |-> 0]
                      ELSE id = [name |-> "agent", host |-> req.Hostname, ts |-> now]
                   /\ id \in DOMAIN agents'
                   /\ agents'[id].Status = "online"
                   /\ agents'[id].LastSeen = now
                   /\ agents'[id].Stacks = <<>>
                   /\ ~agents'[id].Client
                   /\ agents'[id].Hostname = req.Hostname
                   /\ Cardinality({e \in ListAgents' : e.Id = id}) = 1
                   /\ \A e \in ListAgents' :
                         e.Id = id => e.Status = "online" /\ e.LastSeen = now]_vars

\* Reached: the Control Node has generated an id for a second agent, some time
\* after its start, and lists it online.
C16_Witness ==
    /\ reply.rpc = "RegisterAgent" /\ reply.agent.name = "agent"
    /\ reply.agent.ts > 0 /\ reply.agent.ts = now
    /\ Cardinality(DOMAIN agents) = 2
    /\ \E e \in ListAgents : e.Id = reply.agent /\ e.Status = "online"

\* ------------------------------------------------------ the proxy

\* C17: GetStack by stack id fails with NotFound when no agent lists the
\* stack, fails with FailedPrecondition when more than one agent lists it, and
\* is forwarded only when exactly one agent lists it, to that agent.
C17_ResolveByKnownStacks ==
    [][\A stackID \in Stacks, dialOk \in BOOLEAN :
          \A res \in AgentGetStackResults(stackID) :
             GetStack(stackID, dialOk, res)
                => LET holders == findAgentWithStack(stackID)
                   IN /\ holders = {} => reply'.code = "NotFound"
                      /\ Cardinality(holders) > 1
                            => reply'.code = "FailedPrecondition"
                      /\ reply'.forwarded
                            => holders = {reply'.agent}]_vars

\* C18: a unary call the Control Node forwarded to an agent is answered with
\* the response the agent gave, and when the agent failed, with the status
\* code the agent produced.
C18_ProxyTransparent ==
    (reply.forwarded /\ reply.rpc \in {"ListStacks", "GetStack"})
       => IF reply.upstream.err = Nil
          THEN reply.code = "OK" /\ reply.stacks = reply.upstream.stacks
          ELSE reply.code = reply.upstream.err.wraps

\* Reached: an agent answered a forwarded GetStack with NotFound.
C18_Witness ==
    /\ reply.forwarded /\ reply.rpc = "GetStack"
    /\ reply.upstream.err = StatusError("NotFound")
    /\ reply.code = "NotFound"

\* C13: whenever the Control Node is running and does not know an agent whose
\* heartbeat loop is running, the agent is eventually registered again with
\* status online (unless the Control Node stops first).
C13_AgentComesBack ==
    [](((link.pc # "start") /\ coreUp /\ (LinkId \notin DOMAIN agents))
         => <>(\/ ~coreUp
               \/ /\ LinkId \in DOMAIN agents
                  /\ agents[LinkId].Status = AgentStatusOnline))

\* C19: a proxied stream whose agent-side stream ends normally, after the
\* Control Node has sent the caller every message of the agent in order, ends
\* for the caller successfully; a caller's cancellation cancels the agent's
\* stream; and the caller never gets anything but a prefix of the agent's
\* messages.
IsPrefix(a, b) == Len(a) <= Len(b) /\ \A i \in 1..Len(a) : a[i] = b[i]

C19_StreamRelay ==
    /\ IsPrefix(relay.sent, relay.from)
    /\ relay.callerCancelled => relay.agentCancelled
    /\ (relay.pc = "done" /\ relay.err = EOF)
          => relay.sent = relay.from /\ relay.code = "OK"

\* C20: an ApplyStack stream of the Agent that has ended with the event of
\* its operation's success has delivered, in this order, an event with state
\* running, an event with the message "Creating/updating services...", and
\* last an event with state completed and progress 100, the only event with
\* a terminal state.
EndedWithSuccess(o) ==
    /\ IsApply(o) /\ hpc[o] = "done" /\ sent[o] # <<>>
    /\ sent[o][Len(sent[o])].State = OperationStateCompleted

C20_SuccessfulApplyStream ==
    \A o \in OpIds :
       EndedWithSuccess(o) =>
          LET evs == sent[o]
              n == Len(evs)
          IN /\ evs[n].Progress = 100
             /\ \A i \in 1..(n - 1) : evs[i].State \notin Terminal
             /\ \E i \in 1..n, j \in 1..n :
                   /\ i < j
                   /\ evs[i].State = OperationStateRunning
                   /\ evs[j].Message = "Creating/updating services..."

\* ------------------------------------------- the operation manager, again
Subscribed(o, ch) == \E i \in 1..Len(listeners[o]) : listeners[o][i] = ch

\* The step is Cancel(o) publishing one event with state cancelled: every
\* channel subscribed to o that has room gets that event appended, and no
\* other channel changes.
PublishesCancelled(o) ==
    \A ch \in OpIds :
       IF Subscribed(o, ch) /\ Accepts(ch)
       THEN /\ Len(chan'[ch]) = Len(chan[ch]) + 1
            /\ SubSeq(chan'[ch], 1, Len(chan[ch])) = chan[ch]
            /\ chan'[ch][Len(chan'[ch])].OperationID = o
            /\ chan'[ch][Len(chan'[ch])].State = OperationStateCancelled
       ELSE chan'[ch] = chan[ch]

C22_CancelTerminal ==
    [][\A o \in OpIds :
          (ApiCancel(o) /\ Exists(o) /\ operations[o].State \in Terminal)
             => /\ CancelReturn(o) # "nil"
                /\ operations' = operations
                /\ chan' = chan
                /\ lastDelivered' = lastDelivered]_vars

\* C23: the client of the stream going away does not stop the worker, and
\* once Cancel has returned for an operation its worker begins no further
\* step (it keeps its position or ends) and the operation stays cancelled,
\* never becoming completed or failed.
C23_CancelStopsWorker ==
    [][/\ \A o \in OpIds : HandlerCtxDone(o) => wpc' = wpc /\ operations' = operations
       /\ \A o \in DOMAIN operations :
             operations[o].Cancelled
                => /\ operations'[o].State = OperationStateCancelled
                   /\ wpc'[o] \in {wpc[o], "done"}]_vars

\* C24: the progress of every operation lies in 0..100, and the progress
\* values of the events a subscriber's channel takes one after another never
\* decrease.
C24_ProgressBoundedAndMonotone ==
    /\ [](\A o \in DOMAIN operations : operations[o].Progress \in 0..100)
    /\ [][\A ch \in OpIds :
             (lastDelivered'[ch].n > lastDelivered[ch].n /\ lastDelivered[ch].n > 0)
                => lastDelivered'[ch].last.Progress >= lastDelivered[ch].last.Progress]_vars

\* C25: an operation whose progress is 100 has state completed.
C25_FullProgressIsCompleted ==
    \A o \in DOMAIN operations :
        operations[o].Progress = 100 => operations[o].State = OperationStateCompleted

\* ------------------------------------------------------ the stack manager
Entries(name, action) ==
    {i \in DOMAIN diffed.result.Services :
        /\ diffed.result.Services[i].Name = name
        /\ diffed.result.Services[i].Action = action}

\* C26: the diff of a current project against a candidate has one CREATE
\* entry for each service only in the candidate, one DELETE entry for each
\* service only in the current project, one UPDATE entry for a service in both
\* exactly when its two specifications differ (image, ports, environment,
\* volumes, command or restart policy), no other entry, and has_changes
\* exactly when there is an entry.
C26_DiffIsExact ==
    diffed.ran =>
       LET current == diffed.current
           new == diffed.new
       IN /\ \A i \in DOMAIN diffed.result.Services :
                diffed.result.Services[i].Name \in DOMAIN current \cup DOMAIN new
          /\ \A name \in DOMAIN current \cup DOMAIN new :
                /\ Cardinality(Entries(name, DiffActionCreate))
                      = IF name \notin DOMAIN current THEN 1 ELSE 0
                /\ Cardinality(Entries(name, DiffActionDelete))
                      = IF name \notin DOMAIN new THEN 1 ELSE 0
                /\ Cardinality(Entries(name, DiffActionUpdate))
                      = IF /\ name \in DOMAIN current \cap DOMAIN new
                           /\ current[name] # new[name]
                        THEN 1 ELSE 0
          /\ diffed.result.HasChanges <=> diffed.result.Services # <<>>

\* The state the containers of a listing that succeeded stand for.
DerivedState(containers) ==
    LET running == {i \in 1..Len(containers) : containers[i] = "running"}
    IN IF running = {} THEN "stopped"
       ELSE IF running = 1..Len(containers) THEN "running"
       ELSE "partial"

\* C27: a stack is returned with a state that is a function of its container
\* listing: running when all containers are running, stopped when none is (or
\* there is no container), partial when some are, and error when the listing
\* fails.
C27_DerivedState ==
    loaded.ran =>
       /\ loaded.err = "nil"
       /\ loaded.State = IF loaded.listing.err THEN "error"
                         ELSE DerivedState(loaded.listing.containers)

\* What holds of loadStack: when the listing succeeds the stack is returned
\* with state running, stopped or partial as above; when the listing fails no
\* stack is returned, the call fails.
DerivedStateOrFailure ==
    loaded.ran =>
       IF loaded.listing.err
       THEN loaded.err # "nil" /\ loaded.State = "none"
       ELSE /\ loaded.err = "nil"
            /\ loaded.State = DerivedState(loaded.listing.containers)

\* path is stack_root or lies below it.
Within(root, path) ==
    Len(path) >= Len(root) /\ SubSeq(path, 1, Len(root)) = root

\* C28: every path the Agent reads, creates, writes or deletes for a caller
\* lies inside stack_root.
C28_NoAccessOutsideStackRoot ==
    \A a \in touched.accesses : Within(StackRoot, a.path)

\* ------------------------------------------------------ the RBAC plugin
\* A permission's resource glob matches a resource: a trailing * matches any
\* suffix, anything else must be equal.
GlobMatches(glob, resource) ==
    IF glob # <<>> /\ glob[Len(glob)] = "*"
    THEN /\ Len(resource) >= Len(glob) - 1
         /\ \A i \in 1..(Len(glob) - 1) : resource[i] = glob[i]
    ELSE glob = resource

Permitted(user, resource, action) ==
    /\ user.known
    /\ \E roleName \in user.Roles \cap DOMAIN Roles :
          \E perm \in Roles[roleName] :
             /\ GlobMatches(perm.Resource, resource)
             /\ (action \in perm.Actions \/ "*" \in perm.Actions)

\* C29: with the RBAC plugin as the policy plugin of the Agent's pipeline, a
\* request is allowed exactly when some role of the user has a permission
\* whose resource glob matches the request's resource and whose actions hold
\* the request's action or *; a denied request has a non-empty reason.
C29_AllowedIffPermitted ==
    authz.ran =>
       /\ authz.Allowed <=> Permitted(authz.user, authz.resource, authz.action)
       /\ ~authz.Allowed => authz.Reason # ""

\* What holds of the plugin itself: Authorize on an action that carries the
\* request's resource and action allows exactly the permitted requests.
AuthorizeIsExact ==
    authz.ran =>
       (Authorize(authz.user, [Method |-> "rpc", Action |-> authz.action,
                               Resource |-> authz.resource]) = ""
          <=> Permitted(authz.user, authz.resource, authz.action))

\* ------------------------------------- heartbeats against the health sweep

\* C30: under any interleaving of Heartbeat calls with the steps of the
\* health sweep, an agent goes from online to offline only by the sweep's
\* decision on it, and at that moment its last_seen is more than 90 s old;
\* and a Heartbeat of a registered agent leaves that agent online with
\* last_seen at the time of the call, whatever the sweep did before it.
C30_HeartbeatAgainstSweep ==
    /\ [][\A id \in DOMAIN agents :
             (agents[id].Status = AgentStatusOnline
                 /\ agents'[id].Status = AgentStatusOffline)
                => /\ sweep.pc = "decide" /\ sweep.cur = id
                   /\ now - agents[id].LastSeen > OfflineThreshold]_vars
    /\ [][\A id \in DOMAIN agents :
             (sweep.mu = "Heartbeat" /\ sweep.beat = id
                 /\ sweep'.mu # "Heartbeat")
                => /\ agents'[id].Status = AgentStatusOnline
                   /\ agents'[id].LastSeen = now]_vars

\* Reached: an agent a sweep had marked offline came back online by a
\* Heartbeat, and a later sweep, holding the mutex, has read its last_seen
\* and is about to decide on it.
C30_Witness ==
    \E id \in DOMAIN agents :
        /\ LogCount(id) >= 1
        /\ agents[id].Status = AgentStatusOnline
        /\ reply.rpc = "Heartbeat" /\ reply.code = "OK" /\ reply.agent = id
        /\ sweep.mu = "monitorAgents" /\ sweep.pc = "decide" /\ sweep.cur = id

\* -------------------------------------- ListStacks against the registry

\* C31: when a ListStacks call for an agent returns successfully, the
\* registry's known stacks of that agent are exactly the stack ids of the
\* response it returns, whatever other ListStacks calls, registrations and
\* sweeps ran meanwhile.
C31_KnownStacksAreTheResponse ==
    [][\A c \in 1..MaxForwards :
          (fwd.calls[c].pc = "updated" /\ fwd'.calls[c].pc = "done")
             => agents'[LinkId].Stacks = fwd.calls[c].res.stacks]_vars

\* C38: a ListStacks call of the Control Node never makes its call on a nil
\* or closed channel: whatever the health sweep does between
\* getAgentConnection and the call, the request runs on an open channel or
\* returns an error, and the process does not panic.
C38_ForwardOnLiveChannel ==
    /\ ~fwd.panic
    /\ \A c \in 1..MaxForwards :
          /\ fwd.calls[c].pc # "panic"
          /\ fwd.calls[c].pc \in {"forwarding", "answered", "updated"}
                => fwd.calls[c].ch # 0

\* The registry's record of the agent and the channel cached on it.
Cached == IF fwd.record = <<>> THEN 0 ELSE fwd.record[Len(fwd.record)]

\* An agent that is offline holds no cached channel.
OfflineHoldsNoChannel ==
    \A id \in DOMAIN agents :
        agents[id].Status = AgentStatusOffline
           => ~agents[id].Client /\ Cached = 0

\* C36: an agent that is offline holds no cached channel; and for an agent
\* that has never been marked offline at most one channel has been dialed,
\* and every channel dialed and not closed is the one cached on the agent's
\* record (none is dropped without being closed).
C36_OneChannelWhileOnline ==
    /\ OfflineHoldsNoChannel
    /\ LogCount(LinkId) = 0 => Len(fwd.chans) <= 1
    /\ \A n \in 1..Len(fwd.chans) : fwd.chans[n] = "open" => Cached = n

\* ------------------------------------------- publishing to subscribers

\* The channel has taken one more event at its end.
TakesOne(ch) ==
    /\ Len(chan'[ch]) = Len(chan[ch]) + 1
    /\ SubSeq(chan'[ch], 1, Len(chan[ch])) = chan[ch]
    /\ chan'[ch][Len(chan'[ch])].OperationID = 1

\* C32: a publication for the operation puts the event, the same one, in
\* the channel of every current subscriber whose buffer has room, and leaves
\* every other channel as it is (a full buffer drops the event for that
\* subscriber only); and a publisher can take its step also when the buffer
\* of a subscriber is full.
C32_PublishNeverBlocks ==
    /\ [][now' # now =>
             /\ \A ch \in OpIds :
                   IF Subscribed(1, ch) /\ Accepts(ch)
                   THEN TakesOne(ch) ELSE chan'[ch] = chan[ch]
             /\ \A c1, c2 \in OpIds :
                   (TakesOne(c1) /\ TakesOne(c2))
                      => chan'[c1][Len(chan'[c1])] = chan'[c2][Len(chan'[c2])]]_vars
    /\ [](\A f \in Publishers :
             (/\ \E ch \in OpIds : Subscribed(1, ch) /\ ~Accepts(ch)
              /\ f = "Cancel" => ~CancelRefused(1))
                => ENABLED PublishCall(1, f))

\* Reached: both channels are subscribed, the first one is full and has
\* missed the event the second one took last.
C32_Witness ==
    /\ Subscribed(1, 1) /\ Subscribed(1, 2)
    /\ Len(chan[1]) = SubscribeBuffer
    /\ lastDelivered[1].n > 0 /\ lastDelivered[2].n > 0
    /\ lastDelivered[2].last.Timestamp = now - 1
    /\ lastDelivered[1].last.Timestamp < now - 1
    /\ lastDelivered[1].last.Timestamp # ZeroTime

\* C34: the timestamps of the events published for the operation never
\* decrease from one publication to the next, whichever call publishes
\* (seen on a subscriber's channel: each event it takes is stamped no
\* earlier than the one it took before).
C34_TimestampsNonDecreasing ==
    [][\A ch \in OpIds :
          (lastDelivered'[ch].n > lastDelivered[ch].n /\ lastDelivered[ch].n > 0)
             => lastDelivered'[ch].last.Timestamp
                   >= lastDelivered[ch].last.Timestamp]_vars

\* Without Cancel the timestamps never decrease.
StampedInOrder ==
    [][\A ch \in OpIds :
          (lastDelivered'[ch].n > lastDelivered[ch].n /\ lastDelivered[ch].n > 0
              /\ lastDelivered'[ch].last.State # OperationStateCancelled)
             => lastDelivered'[ch].last.Timestamp
                   >= lastDelivered[ch].last.Timestamp]_vars

\* Everything a subscriber has been given so far: what it has received and
\* what waits in its channel.
Given(ch) == sent[ch] \o chan[ch]

Bucket(action) ==
    CASE action = DiffActionUpdate -> 1
      [] action = DiffActionCreate -> 2
      [] action = DiffActionDelete -> 3

\* Service names in lexicographic order.
NameBefore(a, b) == <<a, b>> \in {<<"db", "web">>}

\* C35: the entries of a diff come as all UPDATE entries, then all CREATE
\* entries, then all DELETE entries, each group sorted by service name; so the
\* list is the same for the same two projects.
C35_DiffListIsOrdered ==
    diffed.ran =>
       LET list == diffed.result.Services
       IN \A i, j \in DOMAIN list :
             i < j =>
                \/ Bucket(list[i].Action) < Bucket(list[j].Action)
                \/ /\ list[i].Action = list[j].Action
                   /\ NameBefore(list[i].Name, list[j].Name)

\* The DELETE entries come after every other entry.
DeletesComeLast ==
    diffed.ran =>
       LET list == diffed.result.Services
       IN \A i, j \in DOMAIN list :
             (i < j /\ list[i].Action = DiffActionDelete)
                => list[j].Action = DiffActionDelete

\* -------------------------------------------------------- plugin.Registry
Reverse(seq) == [i \in 1..Len(seq) |-> seq[Len(seq) + 1 - i]]

\* ShutdownAll called Shutdown on every registered plugin exactly once, errors
\* or not, and returned the error of the last call that failed.
ShutdownAllCallsEachOnce ==
    registry.phase = "down" =>
       /\ Len(registry.shutdowns) = Cardinality(registry.plugins)
       /\ \A p \in registry.plugins :
             Cardinality({i \in DOMAIN registry.shutdowns : registry.shutdowns[i] = p}) = 1
       /\ IF registry.failed = {} THEN registry.lastErr = 0
          ELSE /\ registry.lastErr \in registry.failed
               /\ \A i, j \in DOMAIN registry.shutdowns :
                     (registry.shutdowns[i] = registry.lastErr /\ i < j)
                        => registry.shutdowns[j] \notin registry.failed

\* C37: ShutdownAll calls Shutdown on every registered plugin exactly once,
\* also when some of the calls fail, in the reverse of the order in which Init
\* initialised the plugins, and returns the last error seen (nil if none).
C37_ShutdownInReverseInitOrder ==
    (registry.phase = "down" /\ ~registry.initErr) =>
       /\ ShutdownAllCallsEachOnce
       /\ registry.shutdowns = Reverse(registry.inits)

\* ---------------------------------------------- stack.Manager.ApplyStack
\* C40: ApplyStack of the stack manager returns an operation id, the
\* operation stored (pending, its worker not yet run), only when the stack
\* directory, compose.yaml and, for a request with env vars, .env are written;
\* when making the directory or writing a file fails it creates no operation
\* and starts no worker.
C40_ApplyStackSynchronousPart ==
    [][\A s \in Stacks, pull \in BOOLEAN, env \in BOOLEAN, fs \in FsOutcomes :
          StackApply(s, pull, env, fs) =>
             IF ApplyFails(env, fs)
             THEN operations' = operations /\ wpc' = wpc
             ELSE /\ DOMAIN operations' = DOMAIN operations \cup {NextOpId}
                  /\ NextOpId \notin DOMAIN operations
                  /\ operations'[NextOpId].State = OperationStatePending
                  /\ operations'[NextOpId].Progress = 0
                  /\ wpc'[NextOpId] = "start"
                  /\ \A o \in DOMAIN operations :
                        operations'[o] = operations[o] /\ wpc'[o] = wpc[o]
                  /\ {StackDir(s), ComposeFile(s)} \subseteq dirs'
                  /\ env => EnvFile(s) \in dirs']_vars

\* An operation was created for a request with env vars, its files on disk
\* and its worker not yet started; and a directory is left of a call that
\* failed.
C40_Witness ==
    \E o \in DOMAIN operations :
        /\ operations[o].Type = "stack.apply"
        /\ operations[o].State = OperationStatePending
        /\ wpc[o] = "start"
        /\ EnvFile(operations[o].Stack) \in dirs
        /\ \E s \in Stacks : StackDir(s) \in dirs /\ ComposeFile(s) \notin dirs

\* ------------------------------------------------- the end of a stream
\* The handler of the stream of operation o has not returned.
Streaming(o) == hpc[o] \in {"subscribe", "loop"}

\* C39: a stream of ApplyStack or RemoveStack whose operation is in a
\* terminal state (completed, failed or cancelled) ends, also when the
\* terminal event was published before the handler subscribed or was dropped.
C39_StreamEndsOnceTerminal ==
    \A o \in OpIds :
        (Exists(o) /\ operations[o].State \in Terminal /\ Streaming(o))
           ~> ~Streaming(o)

\* A handler whose operation has completed or failed and which holds the
\* event that says so returns.
StreamEndsOnFinalEvent ==
    \A o \in OpIds :
        (hpc[o] = "loop" /\ \E i \in DOMAIN chan[o] : HandlerReturns(chan[o][i]))
           ~> hpc[o] = "done"
====
